---- MODULE Spec2Model ----
(***************************************************************************)
(* Model of the ContextStream MCP server's HTTP gateway                    *)
(* (src/src/http-gateway.ts), its request-scoped auth context              *)
(* (src/src/auth-context.ts) and its outbound HTTP dispatcher              *)
(* (src/unnamed/part_003, the module that exports request()).              *)
(*                                                                         *)
(* Strings are sequences of one-character strings, so that split, trim,    *)
(* toLowerCase and parseInt are computed and not assumed.  The empty       *)
(* sequence stands for both '' and undefined: the code only ever tests     *)
(* these header values for truthiness.                                     *)
(***************************************************************************)
EXTENDS Integers, Sequences, FiniteSets, TLC

\* ------------------------------------------------------------------ bounds
\* session ids the transport can generate, and SessionEntry objects created
MaxSessions == 2
\* the last instant of the clock
MaxClock == 1
\* the deepest nesting of runWithAuthOverride calls on one call chain
MaxDepth == 2
\* the most segments of a version string
MaxSegments == 3
\* the largest value given for options.retries
MaxRetriesOpt == 2

\* the calls of writeSavedCredentials in one behaviour
MaxWrites == 3

\* ----------------------------------------------------------------- strings
Undef == <<>>

Truthy(s) == s # <<>>

\* a || b on strings
Or(a, b) == IF Truthy(a) THEN a ELSE b

RECURSIVE Split(_, _)
\* String.prototype.split(sep) for a one-character separator
Split(s, sep) ==
  IF \A i \in 1..Len(s) : s[i] # sep
    THEN <<s>>
    ELSE LET i == CHOOSE k \in 1..Len(s) :
                    s[k] = sep /\ \A j \in 1..(k - 1) : s[j] # sep
         IN <<SubSeq(s, 1, i - 1)>> \o Split(SubSeq(s, i + 1, Len(s)), sep)

RECURSIVE Join(_, _)
\* Array.prototype.join(sep)
Join(parts, sep) ==
  IF Len(parts) = 0 THEN <<>>
  ELSE IF Len(parts) = 1 THEN parts[1]
  ELSE parts[1] \o <<sep>> \o Join(Tail(parts), sep)

RECURSIVE Trim(_)
\* String.prototype.trim() (the only whitespace of the alphabet is " ")
Trim(s) ==
  IF s = <<>> THEN s
  ELSE IF Head(s) = " " THEN Trim(Tail(s))
  ELSE IF s[Len(s)] = " " THEN Trim(SubSeq(s, 1, Len(s) - 1))
  ELSE s

LowerChar(c) ==
  CASE c = "B" -> "b" [] c = "E" -> "e" [] c = "A" -> "a" [] c = "R" -> "r"
    [] c = "S" -> "s" [] c = "I" -> "i" [] c = "C" -> "c"
    [] OTHER -> c

\* String.prototype.toLowerCase()
ToLowerCase(s) == [i \in 1..Len(s) |-> LowerChar(s[i])]

bearer == <<"b", "e", "a", "r", "e", "r">>

\* ------------------------------------------------------ auth-context.ts
\* AuthOverride | null.  isNull marks the null value; an absent optional
\* field is Undef.
NullOverride ==
  [isNull |-> TRUE, apiKey |-> Undef, jwt |-> Undef,
   workspaceId |-> Undef, projectId |-> Undef]

AuthOverride(apiKey, jwt, workspaceId, projectId) ==
  [isNull |-> FALSE, apiKey |-> apiKey, jwt |-> jwt,
   workspaceId |-> workspaceId, projectId |-> projectId]

\* ------------------------------------------------------- http-gateway.ts
normalizeHeaderValue(value) == IF ~Truthy(value) THEN Undef ELSE value

\* three parts, empty or not
looksLikeJwtAnyParts(token) == Len(Split(token, ".")) = 3

looksLikeJwt(token) ==
  LET parts == Split(token, ".")
  IN Len(parts) = 3 /\ \A i \in 1..Len(parts) : Len(parts[i]) > 0

\* the Bearer token of an authorization header, Undef when there is none
bearerToken(authHeader) ==
  IF ~Truthy(authHeader) THEN Undef
  ELSE LET pieces == Split(authHeader, " ")
           type == pieces[1]
           rest == Tail(pieces)
       IN IF Truthy(type) /\ ToLowerCase(type) = bearer /\ Len(rest) > 0
            THEN Trim(Join(rest, " "))
            ELSE Undef

\* an overlay that keeps the API-key header beside the identity-token header
extractAuthOverrideKeepsKey(headers, fallback) ==
  LET apiKey == Or(normalizeHeaderValue(headers.xApiKey),
                   normalizeHeaderValue(headers.xContextstreamApiKey))
      jwtHeader == normalizeHeaderValue(headers.xContextstreamJwt)
      token == bearerToken(normalizeHeaderValue(headers.authorization))
      workspaceId == Or(normalizeHeaderValue(headers.xContextstreamWorkspaceId),
                        normalizeHeaderValue(headers.xWorkspaceId))
      projectId == Or(normalizeHeaderValue(headers.xContextstreamProjectId),
                      normalizeHeaderValue(headers.xProjectId))
  IN IF Truthy(jwtHeader)
       THEN [override |-> AuthOverride(apiKey, jwtHeader, workspaceId, projectId),
             tokenType |-> "jwt"]
     ELSE IF Truthy(apiKey)
       THEN [override |-> AuthOverride(apiKey, Undef, workspaceId, projectId),
             tokenType |-> "api_key"]
     ELSE IF Truthy(token)
       THEN IF looksLikeJwt(token)
              THEN [override |-> AuthOverride(Undef, token, workspaceId, projectId),
                    tokenType |-> "jwt"]
              ELSE [override |-> AuthOverride(token, Undef, workspaceId, projectId),
                    tokenType |-> "api_key"]
     ELSE IF Truthy(workspaceId) \/ Truthy(projectId)
       THEN [override |-> AuthOverride(Undef, Undef, workspaceId, projectId),
             tokenType |-> "undefined"]
     ELSE [override |-> fallback, tokenType |-> "undefined"]

\* tokenType: "jwt", "api_key" or "undefined"
extractAuthOverride(headers, fallback) ==
  LET apiKey == Or(normalizeHeaderValue(headers.xApiKey),
                   normalizeHeaderValue(headers.xContextstreamApiKey))
      jwtHeader == normalizeHeaderValue(headers.xContextstreamJwt)
      token == bearerToken(normalizeHeaderValue(headers.authorization))
      workspaceId == Or(normalizeHeaderValue(headers.xContextstreamWorkspaceId),
                        normalizeHeaderValue(headers.xWorkspaceId))
      projectId == Or(normalizeHeaderValue(headers.xContextstreamProjectId),
                      normalizeHeaderValue(headers.xProjectId))
  IN IF Truthy(jwtHeader)
       THEN [override |-> AuthOverride(Undef, jwtHeader, workspaceId, projectId),
             tokenType |-> "jwt"]
     ELSE IF Truthy(apiKey)
       THEN [override |-> AuthOverride(apiKey, Undef, workspaceId, projectId),
             tokenType |-> "api_key"]
     ELSE IF Truthy(token)
       THEN IF looksLikeJwt(token)
              THEN [override |-> AuthOverride(Undef, token, workspaceId, projectId),
                    tokenType |-> "jwt"]
              ELSE [override |-> AuthOverride(token, Undef, workspaceId, projectId),
                    tokenType |-> "api_key"]
     ELSE IF Truthy(workspaceId) \/ Truthy(projectId)
       THEN [override |-> AuthOverride(Undef, Undef, workspaceId, projectId),
             tokenType |-> "undefined"]
     ELSE [override |-> fallback, tokenType |-> "undefined"]

\* override?.jwt || override?.apiKey
tokenOf(override) == Or(override.jwt, override.apiKey)

\* -------------------------------------------------- outbound identity
\* part_003 request(): the identity headers built from the config it is given
BearerPrefix == <<"B", "e", "a", "r", "e", "r", " ">>

\* identity headers that leave the bearer token out
RequestHeadersNoBearer(config) ==
  [XApiKey |-> IF Truthy(config.apiKey) THEN config.apiKey ELSE Undef,
   Authorization |-> Undef]

RequestHeaders(config) ==
  [XApiKey |-> IF Truthy(config.apiKey) THEN config.apiKey ELSE Undef,
   Authorization |-> IF Truthy(config.jwt) THEN BearerPrefix \o config.jwt ELSE Undef]

\* the process-wide configuration of loadConfig(): CONTEXTSTREAM_API_KEY is set
ProcessConfig == [apiKey |-> <<"p">>, jwt |-> Undef]

\* The client (client.ts, not part of the sources at hand) hands request() a
\* config whose credentials are those of the active overlay.
effectiveConfig(config, override) ==
  [config EXCEPT !.apiKey = override.apiKey, !.jwt = override.jwt]

\* ------------------------------------------------------------- inputs
K1 == <<"k">>
J1 == <<"a", ".", "b", ".", "c">>
W1 == <<"w">>
BearerK1 == <<"B", "e", "a", "r", "e", "r", " ", "k">>
BearerJ1 == <<"b", "e", "a", "r", "e", "r", " ", "a", ".", "b", ".", "c">>
BasicK1 == <<"B", "a", "s", "i", "c", " ", "k">>

K2 == <<"q">>
J2 == <<"x", ".", "y", ".", "z">>
P1 == <<"p">>
BearerEmptyPart == <<"B", "e", "a", "r", "e", "r", " ", "a", ".", ".", "c">>
BearerTwoParts == <<"B", "e", "a", "r", "e", "r", " ", "a", ".", "b">>
BearerFourParts == <<"B", "e", "a", "r", "e", "r", " ", "a", ".", "b", ".", "c", ".", "d">>
BearerSpaces == <<"B", "E", "A", "R", "E", "R", " ", " ", "k", " ">>

\* two inbound requests in flight at a time: call chains 1 and 2
Req == {1, 2}
SessionIds == 1..MaxSessions

\* The headers of an inbound request; mcpSessionId 0 is an absent header.
\* Concurrent requests carry one of two credentials, or none.
Headers ==
  [mcpSessionId : 0..MaxSessions,
   xApiKey : {Undef, K1},
   xContextstreamApiKey : {Undef},
   xContextstreamJwt : {Undef},
   authorization : {Undef, BearerJ1},
   xContextstreamWorkspaceId : {Undef},
   xWorkspaceId : {Undef},
   xContextstreamProjectId : {Undef},
   xProjectId : {Undef}]

\* Requests handled one at a time carry every combination of the credential
\* headers, with or without a workspace scope.
SerialHeaders ==
  [mcpSessionId : 0..MaxSessions,
   xApiKey : {Undef, K1},
   xContextstreamApiKey : {Undef},
   xContextstreamJwt : {Undef, J1},
   authorization : {Undef, BearerK1, BearerJ1, BasicK1},
   xContextstreamWorkspaceId : {Undef},
   xWorkspaceId : {Undef, W1},
   xContextstreamProjectId : {Undef},
   xProjectId : {Undef}]

\* Requests that open a session carry every combination of the credential
\* and scope headers, with Bearer tokens of every shape.
OpeningHeaders ==
  [mcpSessionId : {0},
   xApiKey : {Undef, K1},
   xContextstreamApiKey : {Undef, K2},
   xContextstreamJwt : {Undef, J2},
   authorization : {Undef, BearerK1, BearerJ1, BearerEmptyPart, BearerTwoParts,
                    BearerFourParts, BearerSpaces, BasicK1},
   xContextstreamWorkspaceId : {Undef},
   xWorkspaceId : {Undef, W1},
   xContextstreamProjectId : {Undef, P1},
   xProjectId : {Undef}]

\* ---------------------------------------------------------------- state
VARIABLES
  REQUIRE_AUTH,   \* http-gateway.ts:28, fixed at process start
  sessions,       \* the Map: session id -> entry (0: no such key)
  entries,        \* the SessionEntry objects allocated so far
  req,            \* per inbound request: position and locals of handleMcpRequest
  authContext,    \* AsyncLocalStorage: per async call chain, the stack of stores
  outbound,       \* per inbound request: the identity headers of its outbound call
  nextSessionId,  \* randomUUID(): the next fresh session id
  now,            \* Date.now()
  calls,          \* per call of request(): its position and locals
  scopes,         \* per async call chain: the runWithAuthOverride calls it is in
  cmp,            \* a call of compareVersions: its arguments and its result
  merge,          \* a call of mergeHooksIntoSettings: arguments and result
  fetchOptions,   \* a call of request(): its arguments and the RequestInit built
  indexStatus,    \* the file ~/.contextstream/indexed-projects.json
  indexCalls,     \* per call of (un)markProjectIndexed: position and locals
  credentialsFile, \* the file ~/.contextstream/credentials.json
  credCalls       \* the calls of write/readSavedCredentials and what they returned

gwVars == <<REQUIRE_AUTH, sessions, entries, req, authContext, outbound,
            nextSessionId, now>>

\* the state of the library functions that are called outside the gateway
ioVars == <<fetchOptions, indexStatus, indexCalls, credentialsFile, credCalls>>

libVars == <<scopes, cmp, merge, ioVars>>

vars == <<gwVars, calls, libVars>>

\* status: the HTTP status answered, 0 while there is none.  The auth info
\* attached to the request object (attachAuthInfo, lines 84-91 and 158-160)
\* is read by the transport only and is not kept.  reported: the transport
\* has called onsessionclosed while handling this request.
IdleReq ==
  [pc |-> "idle", sessionId |-> 0, existingSession |-> 0, entry |-> 0,
   override |-> NullOverride, status |-> 0, reported |-> FALSE]

NoOutbound == [sent |-> FALSE, XApiKey |-> Undef, Authorization |-> Undef]

\* ------------------------------------------------------ auth-context.ts
\* authContext.run(override, fn): fn and everything it awaits run with the
\* store of their own call chain set to override
\* a store shared by every call chain
runWithAuthOverrideGlobal(ctx, chain, override) ==
  [c \in DOMAIN ctx |-> <<override>> \o ctx[c]]

runWithAuthOverride(ctx, chain, override) ==
  [ctx EXCEPT ![chain] = <<override>> \o @]

\* leaving the scope of authContext.run
exitAuthOverride(ctx, chain) ==
  [ctx EXCEPT ![chain] = IF @ = <<>> THEN @ ELSE Tail(@)]

\* authContext.getStore() ?? null
getAuthOverride(chain) ==
  IF authContext[chain] = <<>> THEN NullOverride ELSE Head(authContext[chain])

\* ------------------------------------------------------- http-gateway.ts
GwInit ==
  /\ REQUIRE_AUTH \in BOOLEAN
  /\ sessions = [s \in SessionIds |-> 0]
  /\ entries = <<>>
  /\ req = [r \in Req |-> IdleReq]
  /\ authContext = [r \in Req |-> <<>>]
  /\ outbound = [r \in Req |-> NoOutbound]
  /\ nextSessionId = 1
  /\ now = 0

\* sessionId ? sessions.get(sessionId) : undefined
sessionsGet(sessionId) == IF sessionId = 0 THEN 0 ELSE sessions[sessionId]

\* a fallback that is never taken from the session
fallbackOfNone(existingSession) == NullOverride

\* existingSession?.authOverride ?? null
fallbackOf(existingSession) ==
  IF existingSession = 0 THEN NullOverride ELSE entries[existingSession].authOverride

\* lines 154-157: entry.lastSeenAt = Date.now(); if (override) entry.authOverride = override
recordOnEntry(ents, e, override) ==
  [ents EXCEPT ![e].lastSeenAt = now,
               ![e].authOverride = IF override.isNull THEN @ ELSE override]

\* a rejection that first marks every session as seen now
RejectedTouchesSessions(r, status, sessionId) ==
  /\ req' = [req EXCEPT ![r] =
        [IdleReq EXCEPT !.pc = "done", !.status = status, !.sessionId = sessionId]]
  /\ entries' = [e \in DOMAIN entries |-> [entries[e] EXCEPT !.lastSeenAt = now]]
  /\ UNCHANGED authContext

\* the answer of a rejected request (writeJson and return)
Rejected(r, status, sessionId) ==
  /\ req' = [req EXCEPT ![r] =
        [IdleReq EXCEPT !.pc = "done", !.status = status, !.sessionId = sessionId]]
  /\ UNCHANGED <<entries, authContext>>

\* admission with the session looked up before the credential is required
admissionSessionFirst(requireAuth, token, sessionId, existingSession) ==
  IF sessionId # 0 /\ existingSession = 0 THEN "unknown session"
  ELSE IF requireAuth /\ ~Truthy(token) THEN "unauthorized"
  ELSE IF existingSession = 0 THEN "create"
  ELSE "handle"

\* admission without the unknown-session rejection of lines 144-147
admissionNoSessionCheck(requireAuth, token, sessionId, existingSession) ==
  IF requireAuth /\ ~Truthy(token) THEN "unauthorized"
  ELSE IF existingSession = 0 THEN "create"
  ELSE "handle"

\* admission with the credential required of known sessions only
admissionAuthKnownOnly(requireAuth, token, sessionId, existingSession) ==
  IF requireAuth /\ ~Truthy(token) /\ existingSession # 0 THEN "unauthorized"
  ELSE IF sessionId # 0 /\ existingSession = 0 THEN "unknown session"
  ELSE IF existingSession = 0 THEN "create"
  ELSE "handle"

\* lines 139-152: what handleMcpRequest does with the request
admission(requireAuth, token, sessionId, existingSession) ==
  IF requireAuth /\ ~Truthy(token) THEN "unauthorized"
  ELSE IF sessionId # 0 /\ existingSession = 0 THEN "unknown session"
  ELSE IF existingSession = 0 THEN "create"
  ELSE "handle"

\* handleMcpRequest, lines 133-152, and for a known session lines 154-163
\* up to the await of transport.handleRequest
HandleMcpRequest(r, headers) ==
  /\ req[r].pc = "idle"
  /\ LET sessionId == headers.mcpSessionId
         existingSession == sessionsGet(sessionId)
         x == extractAuthOverride(headers, fallbackOf(existingSession))
         token == tokenOf(x.override)
         what == admission(REQUIRE_AUTH, token, sessionId, existingSession)
     IN CASE what = "unauthorized" -> Rejected(r, 401, sessionId)
          [] what = "unknown session" -> Rejected(r, 404, sessionId)
          [] what = "create" ->
               /\ Len(entries)
                    + Cardinality({q \in Req : req[q].pc = "creating"}) < MaxSessions
               /\ req' = [req EXCEPT ![r] =
                    [IdleReq EXCEPT !.pc = "creating", !.sessionId = sessionId,
                                    !.override = x.override]]
               /\ UNCHANGED <<entries, authContext>>
          [] what = "handle" ->
               /\ entries' = recordOnEntry(entries, existingSession, x.override)
               /\ authContext' = runWithAuthOverride(authContext, r, x.override)
               /\ req' = [req EXCEPT ![r] =
                    [IdleReq EXCEPT !.pc = "handling", !.sessionId = sessionId,
                                    !.existingSession = existingSession,
                                    !.entry = existingSession,
                                    !.override = x.override]]
  /\ UNCHANGED <<libVars, calls, REQUIRE_AUTH, sessions, outbound, nextSessionId, now>>

\* MCP_PATH (line 27) with MCP_HTTP_PATH unset, and /health
MCP_PATH == <<"/", "m", "c", "p">>

HealthPath == <<"/", "h", "e", "a", "l", "t", "h">>

\* new URL(req.url, base).pathname of an origin-form url: what precedes "?"
pathname(url) == Split(url, "?")[1]

\* lines 180-198: what the listener does with the request
route(url, method) ==
  IF ~Truthy(url) THEN "not found"
  ELSE IF pathname(url) = HealthPath THEN "health"
  ELSE IF pathname(url) # MCP_PATH THEN "not found"
  ELSE IF method \notin {"GET", "POST", "DELETE"} THEN "method not allowed"
  ELSE "mcp"

\* req.url of inbound requests: absent, the health path, the MCP path
\* with and without a query, and two other paths
Urls ==
  {Undef, HealthPath, MCP_PATH, MCP_PATH \o <<"?", "a">>, MCP_PATH \o <<"/">>,
   <<"/">>}

\* req.method of inbound requests ("" is an absent method)
Methods == {"GET", "POST", "DELETE", "PUT", "OPTIONS", ""}

\* the request listener of createServer, lines 179-207, up to the first
\* await inside handleMcpRequest
RequestListener(r, url, method, headers) ==
  LET what == route(url, method)
  IN IF what = "mcp" THEN HandleMcpRequest(r, headers)
     ELSE /\ req[r].pc = "idle"
          /\ Rejected(r, CASE what = "not found" -> 404
                            [] what = "health" -> 200
                            [] what = "method not allowed" -> 405, 0)
          /\ UNCHANGED <<libVars, calls, REQUIRE_AUTH, sessions, outbound,
                         nextSessionId, now>>

\* A SessionEntry is referenced by the Map and by the local `entry` of the
\* requests being handled; one that neither references is garbage, and its
\* fields are no longer part of the program's state.
Collected ==
  [authOverride |-> NullOverride, lastSeenAt |-> 0, sessionId |-> 0, closed |-> FALSE]

Reachable(e, sess, rq) ==
  \/ \E s \in SessionIds : sess[s] = e
  \/ \E q \in Req : rq[q].pc = "handling" /\ rq[q].entry = e

Collect(ents, sess, rq) ==
  [e \in DOMAIN ents |-> IF Reachable(e, sess, rq) THEN ents[e] ELSE Collected]

\* createSession() resolves (lines 93-125), then lines 154-163 up to the
\* await of transport.handleRequest
CreateSession(r) ==
  /\ req[r].pc = "creating"
  /\ LET e == Len(entries) + 1
         fresh == [authOverride |-> NullOverride, lastSeenAt |-> now, sessionId |-> 0,
                   closed |-> FALSE]
     IN /\ entries' = recordOnEntry(Append(entries, fresh), e, req[r].override)
        /\ authContext' = runWithAuthOverride(authContext, r, req[r].override)
        /\ req' = [req EXCEPT ![r].pc = "handling", ![r].entry = e]
  /\ UNCHANGED <<libVars, calls, REQUIRE_AUTH, sessions, outbound, nextSessionId, now>>

\* a transport that makes its session resolvable as soon as it has an id
TransportInitializeRegisters(r) ==
  /\ req[r].pc = "handling"
  /\ req[r].existingSession = 0
  /\ entries[req[r].entry].sessionId = 0
  /\ nextSessionId <= MaxSessions
  /\ entries' = [entries EXCEPT ![req[r].entry].sessionId = nextSessionId]
  /\ sessions' = [sessions EXCEPT ![nextSessionId] = req[r].entry]
  /\ nextSessionId' = nextSessionId + 1
  /\ UNCHANGED <<libVars, calls, REQUIRE_AUTH, req, authContext, outbound, now>>

\* a sessionIdGenerator that hands out the same id again
TransportInitializeReusesId(r) ==
  /\ req[r].pc = "handling"
  /\ req[r].existingSession = 0
  /\ entries[req[r].entry].sessionId = 0
  /\ entries' = [entries EXCEPT ![req[r].entry].sessionId = 1]
  /\ UNCHANGED <<libVars, calls, REQUIRE_AUTH, sessions, req, authContext, outbound,
                 nextSessionId, now>>

\* during transport.handleRequest of an initialize request: the transport's
\* sessionIdGenerator (line 106) assigns the session id
TransportInitialize(r) ==
  /\ req[r].pc = "handling"
  /\ req[r].existingSession = 0
  /\ entries[req[r].entry].sessionId = 0
  /\ nextSessionId <= MaxSessions
  /\ entries' = [entries EXCEPT ![req[r].entry].sessionId = nextSessionId]
  /\ nextSessionId' = nextSessionId + 1
  /\ UNCHANGED <<libVars, calls, REQUIRE_AUTH, sessions, req, authContext, outbound, now>>

\* during transport.handleRequest: a tool of the session makes an outbound
\* call; the identity it sends is read from the auth context of its chain
ToolDispatch(r) ==
  /\ req[r].pc = "handling"
  /\ LET h == RequestHeaders(effectiveConfig(ProcessConfig, getAuthOverride(r)))
     IN outbound' = [outbound EXCEPT ![r] =
          [sent |-> TRUE, XApiKey |-> h.XApiKey, Authorization |-> h.Authorization]]
  /\ UNCHANGED <<libVars, calls, REQUIRE_AUTH, sessions, entries, req, authContext,
                 nextSessionId, now>>

\* onsessionclosed (lines 108-110), called by the transport while it handles
\* a DELETE request of an initialized session, once per request.  closed:
\* the entry's transport has reported its closure
OnSessionClosed(r) ==
  /\ req[r].pc = "handling"
  /\ req[r].existingSession # 0
  /\ ~req[r].reported
  /\ entries[req[r].entry].sessionId # 0
  /\ sessions' = [sessions EXCEPT ![entries[req[r].entry].sessionId] = 0]
  /\ entries' = [entries EXCEPT ![req[r].entry].closed = TRUE]
  /\ req' = [req EXCEPT ![r].reported = TRUE]
  /\ UNCHANGED <<libVars, calls, REQUIRE_AUTH, authContext, outbound, nextSessionId, now>>

\* lines 166-169 without the test of existingSession
HandleFinishAlwaysRegisters(r) ==
  /\ req[r].pc = "handling"
  /\ LET newSessionId == entries[req[r].entry].sessionId
     IN sessions' = IF newSessionId # 0
                      THEN [sessions EXCEPT ![newSessionId] = req[r].entry]
                      ELSE sessions
  /\ authContext' = exitAuthOverride(authContext, r)
  /\ req' = [req EXCEPT ![r] = [IdleReq EXCEPT !.pc = "done", !.status = 200]]
  /\ entries' = Collect(entries, sessions', req')
  /\ outbound' = [outbound EXCEPT ![r] = NoOutbound]
  /\ UNCHANGED <<libVars, calls, REQUIRE_AUTH, nextSessionId, now>>

\* transport.handleRequest resolves; lines 166-169
HandleFinish(r) ==
  /\ req[r].pc = "handling"
  /\ LET newSessionId == entries[req[r].entry].sessionId
     IN sessions' = IF req[r].existingSession = 0 /\ newSessionId # 0
                      THEN [sessions EXCEPT ![newSessionId] = req[r].entry]
                      ELSE sessions
  /\ authContext' = exitAuthOverride(authContext, r)
  /\ req' = [req EXCEPT ![r] = [IdleReq EXCEPT !.pc = "done", !.status = 200]]
  /\ entries' = Collect(entries, sessions', req')
  /\ outbound' = [outbound EXCEPT ![r] = NoOutbound]
  /\ UNCHANGED <<libVars, calls, REQUIRE_AUTH, nextSessionId, now>>

\* transport.handleRequest rejects and the session is registered all the
\* same, as by a finally around lines 166-169
HandleThrowsRegisters(r) ==
  /\ req[r].pc = "handling"
  /\ LET newSessionId == entries[req[r].entry].sessionId
     IN sessions' = IF req[r].existingSession = 0 /\ newSessionId # 0
                      THEN [sessions EXCEPT ![newSessionId] = req[r].entry]
                      ELSE sessions
  /\ authContext' = exitAuthOverride(authContext, r)
  /\ req' = [req EXCEPT ![r] = [IdleReq EXCEPT !.pc = "done", !.status = 500]]
  /\ entries' = Collect(entries, sessions', req')
  /\ outbound' = [outbound EXCEPT ![r] = NoOutbound]
  /\ UNCHANGED <<libVars, calls, REQUIRE_AUTH, nextSessionId, now>>

\* transport.handleRequest rejects; the catch of lines 204-206 answers 500
HandleThrows(r) ==
  /\ req[r].pc = "handling"
  /\ authContext' = exitAuthOverride(authContext, r)
  /\ req' = [req EXCEPT ![r] = [IdleReq EXCEPT !.pc = "done", !.status = 500]]
  /\ entries' = Collect(entries, sessions, req')
  /\ outbound' = [outbound EXCEPT ![r] = NoOutbound]
  /\ UNCHANGED <<libVars, calls, REQUIRE_AUTH, sessions, nextSessionId, now>>

\* the response is written; the chain takes the next inbound request
Respond(r) ==
  /\ req[r].pc = "done"
  /\ req' = [req EXCEPT ![r] = IdleReq]
  /\ UNCHANGED <<libVars, calls, REQUIRE_AUTH, sessions, entries, authContext, outbound,
                 nextSessionId, now>>

\* time passes
Tick ==
  /\ now < MaxClock
  /\ now' = now + 1
  /\ UNCHANGED <<libVars, calls, REQUIRE_AUTH, sessions, entries, req, authContext, outbound,
                 nextSessionId>>

\* ------------------------------------------- part_003: errors and retry
\* a classification by the class of the status
statusToCodeByClass(status) ==
  IF status = 0 THEN "NETWORK_ERROR"
  ELSE IF status = 401 THEN "UNAUTHORIZED"
  ELSE IF status = 403 THEN "FORBIDDEN"
  ELSE IF status = 404 THEN "NOT_FOUND"
  ELSE IF status = 429 THEN "RATE_LIMITED"
  ELSE IF status >= 500 THEN "INTERNAL_ERROR"
  ELSE IF status >= 400 THEN "BAD_REQUEST"
  ELSE "UNKNOWN_ERROR"

\* statusToCode (lines 26-42)
statusToCode(status) ==
  CASE status = 0 -> "NETWORK_ERROR"
    [] status = 400 -> "BAD_REQUEST"
    [] status = 401 -> "UNAUTHORIZED"
    [] status = 403 -> "FORBIDDEN"
    [] status = 404 -> "NOT_FOUND"
    [] status = 409 -> "CONFLICT"
    [] status = 422 -> "VALIDATION_ERROR"
    [] status = 429 -> "RATE_LIMITED"
    [] status = 500 -> "INTERNAL_ERROR"
    [] status = 502 -> "BAD_GATEWAY"
    [] status = 503 -> "SERVICE_UNAVAILABLE"
    [] status = 504 -> "GATEWAY_TIMEOUT"
    [] OTHER -> "UNKNOWN_ERROR"

\* a decoded response body: kind "null" (not decodable) or "json"
NullPayload == [kind |-> "null", message |-> "", error |-> ""]

\* new HttpError(status, message, body)
HttpError(status, message, body) ==
  [status |-> status, message |-> message, body |-> body,
   code |-> statusToCode(status)]

NoError == [status |-> -1, message |-> "", body |-> NullPayload, code |-> ""]

\* retryable statuses without 429, without 503, with 422, and with 404
RetryableWithout429 == {408, 500, 502, 503, 504}
RetryableWithout503 == {408, 429, 500, 502, 504}
RetryableWith422 == {408, 422, 429, 500, 502, 503, 504}
RetryableWith404 == {404, 408, 429, 500, 502, 503, 504}

RETRYABLE_STATUSES == {408, 429, 500, 502, 503, 504}
MAX_RETRIES == 3
BASE_DELAY == 1000

RECURSIVE Pow2(_)
\* Math.pow(2, n)
Pow2(n) == IF n <= 0 THEN 1 ELSE 2 * Pow2(n - 1)

Digits == {"0", "1", "2", "3", "4", "5", "6", "7", "8", "9"}

DigitValue(c) ==
  CASE c = "0" -> 0 [] c = "1" -> 1 [] c = "2" -> 2 [] c = "3" -> 3
    [] c = "4" -> 4 [] c = "5" -> 5 [] c = "6" -> 6 [] c = "7" -> 7
    [] c = "8" -> 8 [] c = "9" -> 9

RECURSIVE DigitsPrefix(_, _)
\* the value of the longest prefix of digits of s, continuing from acc
DigitsPrefix(s, acc) ==
  IF s = <<>> \/ Head(s) \notin Digits THEN acc
  ELSE DigitsPrefix(Tail(s), 10 * acc + DigitValue(Head(s)))

\* parseInt(s, 10): leading blanks, an optional sign, then digits; NaN when
\* no digit follows
ParseInt(s) ==
  LET t == Trim(s)
      neg == t # <<>> /\ Head(t) = "-"
      u == IF t # <<>> /\ Head(t) \in {"-", "+"} THEN Tail(t) ELSE t
  IN IF u = <<>> \/ Head(u) \notin Digits
       THEN [nan |-> TRUE, value |-> 0]
       ELSE [nan |-> FALSE,
             value |-> IF neg THEN 0 - DigitsPrefix(u, 0) ELSE DigitsPrefix(u, 0)]

\* the largest delay of a timer: setTimeout keeps its delay in 32 bits
TIMEOUT_MAX == 2147483647

\* lines 118 and 141-142: the delay handed to sleep(), a number of ms.
\* nan: the number is NaN; huge: its magnitude is beyond TIMEOUT_MAX (ms is
\* then not kept)
backoffDelayLinear(baseDelay, attempt) ==
  [nan |-> FALSE, huge |-> FALSE, ms |-> baseDelay * (attempt + 1)]

backoffDelay(baseDelay, attempt) ==
  [nan |-> FALSE, huge |-> FALSE, ms |-> baseDelay * Pow2(attempt)]

retryDelay(retryAfter, baseDelay, attempt) ==
  IF Truthy(retryAfter)
    THEN LET n == ParseInt(retryAfter)
             huge == n.value > TIMEOUT_MAX \div 1000
                       \/ 0 - n.value > TIMEOUT_MAX \div 1000
         IN [nan |-> n.nan, huge |-> huge,
             ms |-> IF huge THEN 0 ELSE n.value * 1000]
    ELSE backoffDelay(baseDelay, attempt)

NoDelay == [nan |-> FALSE, huge |-> FALSE, ms |-> 0]

\* sleep(ms), lines 56-58: the delay that setTimeout arms its timer with.
\* A delay that is NaN, below 1 or above TIMEOUT_MAX is set to 1.
sleep(delay) ==
  IF delay.nan \/ delay.huge \/ delay.ms < 1 THEN 1 ELSE delay.ms

\* line 136: payload?.message || payload?.error || response.statusText
errorMessage(payload) ==
  IF payload.kind = "json" /\ payload.message # "" THEN payload.message
  ELSE IF payload.kind = "json" /\ payload.error # "" THEN payload.error
  ELSE "statusText"

\* ------------------------------------------------------ request() inputs
Calls == {1, 2}

\* response statuses: every status the taxonomy names, 200, 408 and 418
Statuses == {200, 400, 401, 403, 404, 408, 409, 418, 422, 429, 500, 502, 503, 504}

\* retry-after header values: absent, "2", a number of seconds beyond
\* TIMEOUT_MAX ms, and a value that is no number
RetryAfters ==
  {Undef, <<"2">>, <<"2", "1", "4", "7", "4", "8", "4">>, <<"W", "e", "d">>}

Payloads ==
  {NullPayload,
   [kind |-> "json", message |-> "m", error |-> ""],
   [kind |-> "json", message |-> "", error |-> "e"]}

\* options.retries, options.retryDelay (given: FALSE is undefined) and
\* options.signal ("none", "live" or already "aborted")
Options ==
  [retries : {[given |-> FALSE, v |-> 0]}
               \cup {[given |-> TRUE, v |-> n] : n \in (0 - 1)..MaxRetriesOpt},
   retryDelay : {[given |-> FALSE, v |-> 0], [given |-> TRUE, v |-> 500]},
   signal : {"none", "live", "aborted"}]

NoResponse == [status |-> 0]

NoOutcome == [kind |-> "none", payload |-> NullPayload, error |-> NoError]

\* options.signal has not fired during the call
NotCancelled == [pc |-> "none", attempts |-> 0]

\* attempts: fetch calls made; timers: attempts whose timeout timer is
\* pending; listeners: attempts whose controller listens on options.signal;
\* aborted: attempts whose controller was aborted; history: the status of
\* each finished attempt (0: network error, -1: AbortError); cancelled:
\* where the call was, and how many attempts it had made, when
\* options.signal fired; sleepTimer: the ms the timer of the pending sleep
\* was armed with (0: none)
IdleCall ==
  [pc |-> "idle", maxRetries |-> 0, baseDelay |-> 0, signal |-> "none",
   attempt |-> 0, attempts |-> 0, timers |-> {}, listeners |-> {},
   aborted |-> {}, lastError |-> NoError, response |-> NoResponse,
   delay |-> NoDelay, sleepTimer |-> 0, outcome |-> NoOutcome,
   history |-> <<>>, cancelled |-> NotCancelled]

\* an iteration of the loop that runs with the index of the one before
beginAttemptSameIndex(call, attempt) ==
  [call EXCEPT !.pc = "fetch", !.attempts = @ + 1,
               !.timers = @ \cup {call.attempt},
               !.listeners = IF call.signal = "none" THEN @ ELSE @ \cup {call.attempt},
               !.response = NoResponse, !.delay = NoDelay, !.sleepTimer = 0]

\* lines 91-102: one more iteration of the loop, up to the await of fetch
beginAttempt(call, attempt) ==
  [call EXCEPT !.pc = "fetch", !.attempt = attempt, !.attempts = @ + 1,
               !.timers = @ \cup {attempt},
               !.listeners = IF call.signal = "none" THEN @ ELSE @ \cup {attempt},
               !.response = NoResponse, !.delay = NoDelay, !.sleepTimer = 0]

\* await sleep(delay)
sleeps(call, delay) ==
  [call EXCEPT !.pc = "sleep", !.delay = delay, !.sleepTimer = sleep(delay)]

\* throw error
throws(call, error) ==
  [call EXCEPT !.pc = "thrown",
               !.outcome = [NoOutcome EXCEPT !.kind = "error", !.error = error]]

\* request(), lines 65-102
Request(c, options) ==
  /\ calls[c].pc = "idle"
  /\ LET maxRetries == IF options.retries.given THEN options.retries.v ELSE MAX_RETRIES
         baseDelay == IF options.retryDelay.given THEN options.retryDelay.v ELSE BASE_DELAY
         call == [IdleCall EXCEPT !.maxRetries = maxRetries, !.baseDelay = baseDelay,
                                  !.signal = options.signal]
     IN calls' = [calls EXCEPT ![c] =
          IF 0 <= maxRetries
            THEN beginAttempt(call, 0)
            ELSE throws(call, HttpError(0, "Request failed after retries", NullPayload))]
  /\ UNCHANGED <<gwVars, libVars>>

\* lines 114-122: fetch rejected with an error that is no AbortError
FetchFails(c) ==
  /\ calls[c].pc = "fetch"
  /\ LET call == [calls[c] EXCEPT !.timers = @ \ {calls[c].attempt},
                                  !.lastError = HttpError(0, "Network error", NullPayload),
                                  !.history = Append(@, 0)]
     IN calls' = [calls EXCEPT ![c] =
          IF call.attempt < call.maxRetries
            THEN sleeps(call, backoffDelay(call.baseDelay, call.attempt))
            ELSE throws(call, call.lastError)]
  /\ UNCHANGED <<gwVars, libVars>>

\* an AbortError handled like the network errors of lines 114-122
abortErrorRetried(call) ==
  LET failed == [call EXCEPT !.timers = @ \ {call.attempt},
                             !.history = Append(@, -1),
                             !.lastError = HttpError(0, "Network error", NullPayload)]
  IN IF call.attempt < call.maxRetries
       THEN sleeps(failed, backoffDelay(call.baseDelay, call.attempt))
       ELSE throws(failed, failed.lastError)

\* lines 104-112: fetch rejected with an AbortError
abortError(call) ==
  throws([call EXCEPT !.timers = @ \ {call.attempt}, !.history = Append(@, -1)],
         IF call.signal = "aborted"
           THEN HttpError(0, "Request cancelled by user", NullPayload)
           ELSE HttpError(0, "Request timeout after 180 seconds", NullPayload))

\* line 92: the timeout timer of attempt k fires and aborts its controller
TimeoutFires(c, k) ==
  /\ k \in calls[c].timers
  /\ LET call == [calls[c] EXCEPT !.timers = @ \ {k}, !.aborted = @ \cup {k}]
     IN calls' = [calls EXCEPT ![c] =
          IF call.pc = "fetch" /\ call.attempt = k THEN abortError(call) ELSE call]
  /\ UNCHANGED <<gwVars, libVars>>

\* the caller aborts options.signal: every listener of line 96 aborts its
\* controller
SignalAborts(c) ==
  /\ calls[c].signal = "live"
  /\ calls[c].pc \in {"fetch", "body", "sleep"}
  /\ LET call == [calls[c] EXCEPT !.signal = "aborted",
                                  !.aborted = @ \cup calls[c].listeners,
                                  !.cancelled = [pc |-> calls[c].pc,
                                                 attempts |-> calls[c].attempts]]
     IN calls' = [calls EXCEPT ![c] =
          IF call.pc = "fetch" /\ call.attempt \in call.aborted
            THEN abortError(call) ELSE call]
  /\ UNCHANGED <<gwVars, libVars>>

\* fetch resolved with a response and the timer is left armed
FetchRespondsKeepsTimer(c, status) ==
  /\ calls[c].pc = "fetch"
  /\ calls' = [calls EXCEPT ![c] =
        [@ EXCEPT !.pc = "body", !.response = [status |-> status]]]
  /\ UNCHANGED <<gwVars, libVars>>

\* fetch resolved with a response; line 125
FetchResponds(c, status) ==
  /\ calls[c].pc = "fetch"
  /\ calls' = [calls EXCEPT ![c] =
        [@ EXCEPT !.pc = "body", !.timers = @ \ {calls[c].attempt},
                  !.response = [status |-> status]]]
  /\ UNCHANGED <<gwVars, libVars>>

\* lines 127-150: the body is decoded (to null when that fails); retryAfter
\* is the response's retry-after header
BodyRead(c, payload, retryAfter) ==
  /\ calls[c].pc = "body"
  /\ LET status == calls[c].response.status
         ok == 200 <= status /\ status <= 299
         call == [calls[c] EXCEPT !.history = Append(@, status)]
         failed == [call EXCEPT
                      !.lastError = HttpError(status, errorMessage(payload), payload)]
     IN calls' = [calls EXCEPT ![c] =
          IF ok
            THEN [call EXCEPT !.pc = "returned",
                    !.outcome = [NoOutcome EXCEPT !.kind = "value", !.payload = payload]]
          ELSE IF status \in RETRYABLE_STATUSES /\ call.attempt < call.maxRetries
            THEN sleeps(failed, retryDelay(retryAfter, call.baseDelay, call.attempt))
          ELSE throws(failed, failed.lastError)]
  /\ UNCHANGED <<gwVars, libVars>>

\* sleep(delay) resolves and attempt++ counts on a counter that all calls
\* share
SleepDoneSharedCounter(c) ==
  /\ calls[c].pc = "sleep"
  /\ calls' = [d \in Calls |->
        IF d = c
          THEN IF calls[c].attempt + 1 <= calls[c].maxRetries
                 THEN beginAttempt(calls[c], calls[c].attempt + 1)
                 ELSE throws(calls[c], calls[c].lastError)
          ELSE [calls[d] EXCEPT !.attempt = @ + 1]]
  /\ UNCHANGED <<gwVars, libVars>>

\* sleep(delay) resolves; continue: attempt++ and the loop test of line 90
SleepDone(c) ==
  /\ calls[c].pc = "sleep"
  /\ calls' = [calls EXCEPT ![c] =
        IF calls[c].attempt + 1 <= calls[c].maxRetries
          THEN beginAttempt(calls[c], calls[c].attempt + 1)
          ELSE throws(calls[c], calls[c].lastError)]
  /\ UNCHANGED <<gwVars, libVars>>

\* ------------------------------------------- auth-context.ts, its callers
\* frames: the overrides of the runWithAuthOverride calls whose fn is
\* running on the chain, innermost first; seen: what the chain's last call
\* of getAuthOverride() returned
IdleChain ==
  [frames |-> <<>>, seen |-> [called |-> FALSE, value |-> NullOverride]]

\* the overrides that callers pass: null, an API key, and an identity token
\* with a workspace
Overrides ==
  {NullOverride, AuthOverride(K1, Undef, Undef, Undef),
   AuthOverride(Undef, J1, W1, Undef)}

\* runWithAuthOverride(override, fn), line 16: fn starts
ScopeRun(c, override) ==
  /\ Len(scopes[c].frames) < MaxDepth
  /\ authContext' = runWithAuthOverride(authContext, c, override)
  /\ scopes' = [scopes EXCEPT ![c].frames = <<override>> \o @]
  /\ UNCHANGED <<calls, cmp, merge, ioVars, REQUIRE_AUTH, sessions, entries, req, outbound,
                 nextSessionId, now>>

\* the promise of fn settles: the innermost runWithAuthOverride is over
ScopeReturn(c) ==
  /\ scopes[c].frames # <<>>
  /\ authContext' = exitAuthOverride(authContext, c)
  /\ scopes' = [scopes EXCEPT ![c].frames = Tail(@)]
  /\ UNCHANGED <<calls, cmp, merge, ioVars, REQUIRE_AUTH, sessions, entries, req, outbound,
                 nextSessionId, now>>

\* getAuthOverride(), lines 19-21, called on chain c
ScopeGet(c) ==
  /\ scopes' = [scopes EXCEPT ![c].seen =
        [called |-> TRUE, value |-> getAuthOverride(c)]]
  /\ UNCHANGED <<gwVars, calls, cmp, merge, ioVars>>

\* -------------------------------------------------------------- version.ts
\* a JavaScript number that is NaN or an integer
NaN == [nan |-> TRUE, value |-> 0]

Num(n) == [nan |-> FALSE, value |-> n]

\* Number(s) of a string without blanks, sign, point and exponent: 0 for
\* the empty string, the decimal value of a string of digits, else NaN
ToNumber(s) ==
  IF \A i \in 1..Len(s) : s[i] \in Digits THEN Num(DigitsPrefix(s, 0)) ELSE NaN

\* the < and > of two numbers: false when either is NaN
Less(a, b) == ~a.nan /\ ~b.nan /\ a.value < b.value

\* parts[i] ?? 0
PartOrZero(parts, i) == IF i <= Len(parts) THEN parts[i] ELSE Num(0)

RECURSIVE compareFrom(_, _, _)
\* the loop of lines 28-34, from index i on (counted from 1)
compareFrom(parts1, parts2, i) ==
  IF i > Len(parts1) /\ i > Len(parts2) THEN 0
  ELSE LET p1 == PartOrZero(parts1, i)
           p2 == PartOrZero(parts2, i)
       IN IF Less(p1, p2) THEN 0 - 1
          ELSE IF Less(p2, p1) THEN 1
          ELSE compareFrom(parts1, parts2, i + 1)

\* the parts of a version: v.split('.').map(Number)
versionParts(v) ==
  LET parts == Split(v, ".") IN [i \in 1..Len(parts) |-> ToNumber(parts[i])]

RECURSIVE compareCommon(_, _, _)
\* a comparison that stops where the shorter version ends
compareCommon(parts1, parts2, i) ==
  IF i > Len(parts1) \/ i > Len(parts2) THEN 0
  ELSE IF Less(parts1[i], parts2[i]) THEN 0 - 1
  ELSE IF Less(parts2[i], parts1[i]) THEN 1
  ELSE compareCommon(parts1, parts2, i + 1)

compareVersionsCommon(v1, v2) ==
  compareCommon(versionParts(v1), versionParts(v2), 1)

\* compareVersions(v1, v2), lines 24-35
compareVersions(v1, v2) ==
  compareFrom(versionParts(v1), versionParts(v2), 1)

\* the segments of the versions compared: 0, 2, 10 and a tag
Segments == {<<"0">>, <<"2">>, <<"1", "0">>, <<"r", "c">>}

\* the versions of one to MaxSegments segments
Versions ==
  {Join(l, ".") : l \in UNION {[1..k -> Segments] : k \in 1..MaxSegments}}

NoCmp == [called |-> FALSE, v1 |-> Undef, v2 |-> Undef, result |-> 0]

\* compareVersions(cmp.v1, cmp.v2) is called and returns
CompareVersions ==
  /\ ~cmp.called
  /\ cmp' = [cmp EXCEPT !.called = TRUE, !.result = compareVersions(cmp.v1, cmp.v2)]
  /\ UNCHANGED <<gwVars, calls, scopes, merge, ioVars>>

\* --------------------------------------- hooks installer (part_001)
contextstream ==
  <<"c", "o", "n", "t", "e", "x", "t", "s", "t", "r", "e", "a", "m">>

\* String.prototype.includes(needle)
Includes(s, needle) ==
  \E i \in 1..(Len(s) - Len(needle) + 1) :
    SubSeq(s, i, i + Len(needle) - 1) = needle

\* the commands of hooks: a user's own, an installed ContextStream hook and
\* the ContextStream hook being installed
UserCommand == <<"l", "i", "n", "t">>
InstalledCommand == <<"~", "/">> \o contextstream \o <<".", "p", "y">>
NewCommand == <<"/">> \o contextstream \o <<"2", ".", "p", "y">>

\* a ClaudeHookMatcher: hooks holds the command of each of its hooks
Matcher(commands) == [matcher |-> "*", hooks |-> commands]

HookTypes == {"PreToolUse", "UserPromptSubmit"}

\* the value of a key that an object does not have
Absent == [present |-> FALSE, matchers |-> <<>>]

Present(matchers) == [present |-> TRUE, matchers |-> matchers]

\* {}: no hook type has matchers
NoHooks == [t \in HookTypes |-> Absent]

\* m.hooks?.some((h) => h.command?.includes("contextstream"))
isContextStreamMatcher(m) ==
  \E i \in 1..Len(m.hooks) : Includes(m.hooks[i], contextstream)

keepsMatcher(m) == ~isContextStreamMatcher(m)

\* a merge of one hook type that keeps every existing matcher
mergeHookTypeAppends(existing, matchers) ==
  IF ~matchers.present THEN existing
  ELSE Present(existing.matchers \o matchers.matchers)

\* the merge of one hook type, lines 489-499
mergeHookType(existing, matchers) ==
  IF ~matchers.present THEN existing
  ELSE Present(SelectSeq(existing.matchers, keepsMatcher) \o matchers.matchers)

\* mergeHooksIntoSettings(existingSettings, newHooks), lines 480-504; a
\* newHooks that is undefined is NoHooks
mergeHooksIntoSettings(existingSettings, newHooks) ==
  LET existingHooks == IF existingSettings.hasHooks
                         THEN existingSettings.hooks ELSE NoHooks
  IN [existingSettings EXCEPT
        !.hasHooks = TRUE,
        !.hooks = [t \in HookTypes |-> mergeHookType(existingHooks[t], newHooks[t])]]

\* the matcher lists of one hook type in a settings file
ExistingMatchers ==
  {Absent, Present(<<>>), Present(<<Matcher(<<UserCommand>>)>>),
   Present(<<Matcher(<<InstalledCommand>>)>>),
   Present(<<Matcher(<<UserCommand>>), Matcher(<<InstalledCommand>>)>>),
   Present(<<Matcher(<<UserCommand, InstalledCommand>>)>>)}

\* settings files: with or without hooks, with or without another key
SettingsFiles ==
  [hasHooks : {TRUE}, hooks : [HookTypes -> ExistingMatchers], model : {Undef, K1}]
    \cup [hasHooks : {FALSE}, hooks : {NoHooks}, model : {Undef, K1}]

\* the hooks to install
NewHooks == [HookTypes -> {Absent, Present(<<Matcher(<<NewCommand>>)>>)}]

NoSettings == [hasHooks |-> FALSE, hooks |-> NoHooks, model |-> Undef]

NoMerge ==
  [called |-> FALSE, existingSettings |-> NoSettings, newHooks |-> NoHooks,
   result |-> NoSettings]

\* mergeHooksIntoSettings is called and returns; existingSettings.hooks is
\* the object that line 499 writes to, when the settings have hooks
MergeHooksIntoSettings ==
  /\ ~merge.called
  /\ LET result == mergeHooksIntoSettings(merge.existingSettings, merge.newHooks)
     IN merge' = [merge EXCEPT
          !.called = TRUE,
          !.result = result,
          !.existingSettings = IF @.hasHooks THEN [@ EXCEPT !.hooks = result.hooks]
                                             ELSE @]
  /\ UNCHANGED <<gwVars, calls, scopes, cmp, ioVars>>

\* ------------------------------------- request(): the options of fetch

\* a value of options.body, which is of type any: text is the literal of a
\* number, of a boolean or of an object, and the characters of a string
JsValue(type, text) == [type |-> type, text |-> text]

Undefined == JsValue("undefined", <<>>)

BodyObject == JsValue("object", <<"{", "}">>)

Bodies ==
  {Undefined, BodyObject, JsValue("null", <<>>),
   JsValue("number", <<"0">>), JsValue("number", <<"7">>),
   JsValue("string", <<>>), JsValue("string", <<"q">>),
   JsValue("boolean", <<"f", "a", "l", "s", "e">>),
   JsValue("boolean", <<"t", "r", "u", "e">>)}

\* the truthiness of a value
ToBoolean(v) ==
  CASE v.type \in {"undefined", "null"} -> FALSE
    [] v.type = "number" -> v.text # <<"0">>
    [] v.type = "string" -> v.text # <<>>
    [] v.type = "boolean" -> v.text = <<"t", "r", "u", "e">>
    [] OTHER -> TRUE

\* JSON.stringify(v) of a value that is not undefined
JsonStringify(v) ==
  CASE v.type = "null" -> <<"n", "u", "l", "l">>
    [] v.type = "string" -> <<"\"">> \o v.text \o <<"\"">>
    [] OTHER -> v.text

\* options.method: 'GET' | 'POST' | 'PUT' | 'DELETE', or not given
MethodOptions ==
  {[given |-> FALSE, v |-> ""]}
    \cup [given : {TRUE}, v : {"GET", "POST", "PUT", "DELETE"}]

\* the apiKey and the jwt of the config: a string, which may be empty
Configs == [apiKey : {<<>>, K1}, jwt : {<<>>, J1}]

NoHeader == [present |-> FALSE, value |-> <<>>]

Header(value) == [present |-> TRUE, value |-> value]

NoBody == [present |-> FALSE, text |-> <<>>]

\* lines 72-77: the headers that carry the identity
requestHeaders(config) ==
  [xApiKey |-> IF config.apiKey # <<>> THEN Header(config.apiKey) ELSE NoHeader,
   authorization |-> IF config.jwt # <<>> THEN Header(BearerPrefix \o config.jwt)
                                         ELSE NoHeader]

\* line 80: options.method || (options.body ? 'POST' : 'GET')
requestMethod(options) ==
  IF options.method.given THEN options.method.v
  ELSE IF ToBoolean(options.body) THEN "POST" ELSE "GET"

\* lines 79-86: the RequestInit handed to fetch
buildFetchOptions(config, options) ==
  [method |-> requestMethod(options),
   headers |-> requestHeaders(config),
   body |-> IF options.body # Undefined
              THEN [present |-> TRUE, text |-> JsonStringify(options.body)]
              ELSE NoBody]

NoRequestInit ==
  [method |-> "", headers |-> [xApiKey |-> NoHeader, authorization |-> NoHeader],
   body |-> NoBody]

NoFetchOptions ==
  [called |-> FALSE, config |-> [apiKey |-> <<>>, jwt |-> <<>>],
   options |-> [method |-> [given |-> FALSE, v |-> ""], body |-> Undefined],
   init |-> NoRequestInit]

\* request(config, path, options) runs up to its first attempt
BuildFetchOptions ==
  /\ ~fetchOptions.called
  /\ fetchOptions' = [fetchOptions EXCEPT
        !.called = TRUE,
        !.init = buildFetchOptions(fetchOptions.config, fetchOptions.options)]
  /\ UNCHANGED <<gwVars, calls, scopes, cmp, merge, indexStatus, indexCalls,
                 credentialsFile, credCalls>>

\* ------------------------------------------- the index status file

\* resolved project paths
ProjectPaths == {<<"/", "a">>, <<"/", "b">>}

\* options?.project_id
ProjectIds == {Undef, P1}

\* the value of a key that projects does not have
NoProject == [present |-> FALSE, indexed_at |-> 0, project_id |-> Undef]

IndexedProject(indexed_at, project_id) ==
  [present |-> TRUE, indexed_at |-> indexed_at, project_id |-> project_id]

\* { version: 1, projects: {} }
EmptyProjects == [p \in ProjectPaths |-> NoProject]

\* no file at getIndexStatusPath()
NoIndexFile == [exists |-> FALSE, projects |-> EmptyProjects]

\* the files that writeIndexStatus has left
IndexFiles ==
  {NoIndexFile}
    \cup [exists : {TRUE},
          projects : [ProjectPaths -> {NoProject, IndexedProject(0, P1)}]]

IdleIndexCall ==
  [pc |-> "idle", op |-> "none", projectPath |-> <<>>, project_id |-> Undef,
   status |-> EmptyProjects]

\* readIndexStatus(), lines 649-657: the content of the file, or the catch
readIndexStatus ==
  IF indexStatus.exists THEN indexStatus.projects ELSE EmptyProjects

\* markProjectIndexed(projectPath, options) is called, line 676: it awaits
\* the read of the file
MarkProjectIndexed(c, projectPath, project_id) ==
  /\ indexCalls[c].pc = "idle"
  /\ indexCalls' = [indexCalls EXCEPT ![c] =
        [@ EXCEPT !.pc = "reading", !.op = "mark", !.projectPath = projectPath,
                  !.project_id = project_id]]
  /\ UNCHANGED <<gwVars, calls, scopes, cmp, merge, fetchOptions, indexStatus,
                 credentialsFile, credCalls>>

\* unmarkProjectIndexed(projectPath) is called, line 692
UnmarkProjectIndexed(c, projectPath) ==
  /\ indexCalls[c].pc = "idle"
  /\ indexCalls' = [indexCalls EXCEPT ![c] =
        [@ EXCEPT !.pc = "reading", !.op = "unmark", !.projectPath = projectPath]]
  /\ UNCHANGED <<gwVars, calls, scopes, cmp, merge, fetchOptions, indexStatus,
                 credentialsFile, credCalls>>

\* fs.readFile settles: the call changes the status it has read, lines
\* 679-683 and 695, and awaits the write of it
ReadIndexStatus(c) ==
  /\ indexCalls[c].pc = "reading"
  /\ LET call == indexCalls[c]
         entry == IF call.op = "mark" THEN IndexedProject(now, call.project_id)
                                      ELSE NoProject
     IN indexCalls' = [indexCalls EXCEPT ![c] =
          [@ EXCEPT !.pc = "writing",
                    !.status = [readIndexStatus EXCEPT ![call.projectPath] = entry]]]
  /\ UNCHANGED <<gwVars, calls, scopes, cmp, merge, fetchOptions, indexStatus,
                 credentialsFile, credCalls>>

\* writeIndexStatus(status), lines 662-667: fs.mkdir and fs.writeFile settle
WriteIndexStatus(c) ==
  /\ indexCalls[c].pc = "writing"
  /\ indexStatus' = [exists |-> TRUE, projects |-> indexCalls[c].status]
  /\ indexCalls' = [indexCalls EXCEPT ![c].pc = "done"]
  /\ UNCHANGED <<gwVars, calls, scopes, cmp, merge, fetchOptions, credentialsFile,
                 credCalls>>

\* --------------------------------------------------- credentials.ts

RECURSIVE StripTrailingSlashes(_)
\* .replace(/\/+$/, '')
StripTrailingSlashes(s) ==
  IF s # <<>> /\ s[Len(s)] = "/" THEN StripTrailingSlashes(SubSeq(s, 1, Len(s) - 1))
  ELSE s

\* normalizeApiUrl(input), lines 14-19
normalizeApiUrl(input) == StripTrailingSlashes(Trim(input))

\* a SavedCredentialsV1; created_at and updated_at are the instants that
\* the ISO strings name, and an email of Undef is an absent key
SavedCredentials(api_url, api_key, email, created_at, updated_at) ==
  [api_url |-> api_url, api_key |-> api_key, email |-> email,
   created_at |-> created_at, updated_at |-> updated_at]

NoCredentials == SavedCredentials(<<>>, <<>>, Undef, 0, 0)

\* no file at credentialsFilePath()
NoCredentialsFile == [exists |-> FALSE, value |-> NoCredentials]

\* the value that readSavedCredentials returns
Null == [isNull |-> TRUE, value |-> NoCredentials]

NotNull(value) == [isNull |-> FALSE, value |-> value]

\* readSavedCredentials(), lines 29-59, of a file that
\* writeSavedCredentials wrote: version is 1 and the instants are there
readSavedCredentials ==
  IF ~credentialsFile.exists THEN Null
  ELSE LET parsed == credentialsFile.value
           apiUrl == normalizeApiUrl(parsed.api_url)
           apiKey == Trim(parsed.api_key)
       IN IF ~Truthy(apiUrl) \/ ~Truthy(apiKey) THEN Null
          ELSE NotNull(SavedCredentials(apiUrl, apiKey, Or(Trim(parsed.email), Undef),
                                        parsed.created_at, parsed.updated_at))

\* the value of writeSavedCredentials(input), lines 69-79
savedValue(input, existing) ==
  SavedCredentials(normalizeApiUrl(input.apiUrl), Trim(input.apiKey),
                   Or(Trim(input.email), Undef),
                   IF existing.isNull THEN now ELSE existing.value.created_at,
                   now)

\* the arguments of writeSavedCredentials
CredentialInputs ==
  [apiUrl : {<<"h">>, <<"h", "/">>, <<" ", "h", "/", "/", " ">>, <<"h", " ", "/">>,
             <<" ">>},
   apiKey : {K1, <<" ", "k", " ">>, <<" ">>},
   email : {Undef, <<"e">>, <<" ">>}]

\* writes: the calls of writeSavedCredentials so far; first and last: the
\* value the first and the latest of them returned; read: the value the
\* latest call of readSavedCredentials returned
NoCredCalls ==
  [writes |-> 0, first |-> NoCredentials, last |-> NoCredentials,
   reads |-> 0, read |-> Null]

\* writeSavedCredentials(input), lines 61-90
WriteSavedCredentials(input) ==
  /\ credCalls.writes < MaxWrites
  /\ LET value == savedValue(input, readSavedCredentials)
     IN /\ credentialsFile' = [exists |-> TRUE, value |-> value]
        /\ credCalls' = [credCalls EXCEPT
              !.writes = @ + 1,
              !.first = IF credCalls.writes = 0 THEN value ELSE @,
              !.last = value]
  /\ UNCHANGED <<gwVars, calls, scopes, cmp, merge, fetchOptions, indexStatus,
                 indexCalls>>

\* readSavedCredentials() is called and returns
ReadSavedCredentials ==
  /\ credCalls' = [credCalls EXCEPT !.reads = 1, !.read = readSavedCredentials]
  /\ UNCHANGED <<gwVars, calls, scopes, cmp, merge, fetchOptions, indexStatus,
                 indexCalls, credentialsFile>>

\* ------------------------------------------------------ files on disk

IoInit ==
  /\ fetchOptions = NoFetchOptions
  /\ indexStatus = NoIndexFile
  /\ indexCalls = [c \in Calls |-> IdleIndexCall]
  /\ credentialsFile = NoCredentialsFile
  /\ credCalls = NoCredCalls

\* ------------------------------------------------------ library functions

LibInit ==
  /\ scopes = [r \in Req |-> IdleChain]
  /\ cmp = NoCmp
  /\ merge = NoMerge
  /\ IoInit

Init == GwInit /\ calls = [c \in Calls |-> IdleCall] /\ LibInit

\* the gateway with two requests in flight
Next ==
  \/ \E r \in Req, headers \in Headers : HandleMcpRequest(r, headers)
  \/ \E r \in Req : CreateSession(r)
  \/ \E r \in Req : TransportInitialize(r)
  \/ \E r \in Req : ToolDispatch(r)
  \/ \E r \in Req : OnSessionClosed(r)
  \/ \E r \in Req : HandleFinish(r)
  \/ \E r \in Req : HandleThrows(r)
  \/ \E r \in Req : Respond(r)

Spec == Init /\ [][Next]_vars

\* the gateway handling one request at a time, while time passes
SerialNext ==
  \/ \E headers \in SerialHeaders : HandleMcpRequest(1, headers)
  \/ CreateSession(1)
  \/ TransportInitialize(1)
  \/ ToolDispatch(1)
  \/ OnSessionClosed(1)
  \/ HandleFinish(1)
  \/ HandleThrows(1)
  \/ Respond(1)
  \/ Tick

SerialSpec == Init /\ [][SerialNext]_vars

\* the HTTP server handling one request at a time, of any path and method,
\* while time passes
ListenerNext ==
  \/ \E url \in Urls, method \in Methods, headers \in Headers :
        RequestListener(1, url, method, headers)
  \/ CreateSession(1)
  \/ TransportInitialize(1)
  \/ OnSessionClosed(1)
  \/ HandleFinish(1)
  \/ HandleThrows(1)
  \/ Respond(1)
  \/ Tick

ListenerSpec == Init /\ [][ListenerNext]_vars

\* the gateway opening sessions, one request at a time
OpeningNext ==
  \/ \E headers \in OpeningHeaders : HandleMcpRequest(1, headers)
  \/ CreateSession(1)
  \/ HandleFinish(1)
  \/ HandleThrows(1)
  \/ Respond(1)

OpeningSpec == Init /\ [][OpeningNext]_vars

\* one call of request() against a remote that answers each attempt freely
DispatchInit ==
  /\ REQUIRE_AUTH = TRUE
  /\ sessions = [s \in SessionIds |-> 0]
  /\ entries = <<>>
  /\ req = [r \in Req |-> IdleReq]
  /\ authContext = [r \in Req |-> <<>>]
  /\ outbound = [r \in Req |-> NoOutbound]
  /\ nextSessionId = 1
  /\ now = 0
  /\ calls = [c \in Calls |-> IdleCall]
  /\ LibInit

DispatchNext ==
  \/ \E options \in Options : Request(1, options)
  \/ FetchFails(1)
  \/ \E k \in 0..(MaxRetriesOpt + MAX_RETRIES) : TimeoutFires(1, k)
  \/ SignalAborts(1)
  \/ \E status \in Statuses : FetchResponds(1, status)
  \/ \E payload \in Payloads, retryAfter \in RetryAfters :
        BodyRead(1, payload, retryAfter)
  \/ SleepDone(1)

DispatchSpec == DispatchInit /\ [][DispatchNext]_vars

\* the options and the response statuses of two concurrent calls
ConcurrentOptions ==
  [retries : {[given |-> TRUE, v |-> 0], [given |-> TRUE, v |-> 2]},
   retryDelay : {[given |-> FALSE, v |-> 0]},
   signal : {"none", "live"}]

ConcurrentStatuses == {200, 404, 503}

\* two calls of request() whose awaits interleave freely
ConcurrentNext ==
  \/ \E c \in Calls, options \in ConcurrentOptions : Request(c, options)
  \/ \E c \in Calls : FetchFails(c)
  \/ \E c \in Calls, k \in 0..(MaxRetriesOpt + MAX_RETRIES) : TimeoutFires(c, k)
  \/ \E c \in Calls : SignalAborts(c)
  \/ \E c \in Calls, status \in ConcurrentStatuses : FetchResponds(c, status)
  \/ \E c \in Calls : BodyRead(c, NullPayload, Undef)
  \/ \E c \in Calls : SleepDone(c)

ConcurrentSpec == DispatchInit /\ [][ConcurrentNext]_vars

\* two call chains that enter and leave runWithAuthOverride scopes and call
\* getAuthOverride() in between
ScopeNext ==
  \/ \E c \in Req, override \in Overrides : ScopeRun(c, override)
  \/ \E c \in Req : ScopeReturn(c)
  \/ \E c \in Req : ScopeGet(c)

ScopeSpec == DispatchInit /\ [][ScopeNext]_vars

\* compareVersions is called with any two versions
VersionInit ==
  /\ GwInit
  /\ calls = [c \in Calls |-> IdleCall]
  /\ scopes = [r \in Req |-> IdleChain]
  /\ cmp \in {[NoCmp EXCEPT !.v1 = v1, !.v2 = v2] : v1 \in Versions, v2 \in Versions}
  /\ merge = NoMerge
  /\ IoInit

VersionNext == CompareVersions

VersionSpec == VersionInit /\ [][VersionNext]_vars

\* mergeHooksIntoSettings is called with any settings file and any hooks
MergeInit ==
  /\ GwInit
  /\ calls = [c \in Calls |-> IdleCall]
  /\ scopes = [r \in Req |-> IdleChain]
  /\ cmp = NoCmp
  /\ merge \in {[NoMerge EXCEPT !.existingSettings = existingSettings,
                                 !.newHooks = newHooks] :
                 existingSettings \in SettingsFiles, newHooks \in NewHooks}
  /\ IoInit

MergeNext == MergeHooksIntoSettings

MergeSpec == MergeInit /\ [][MergeNext]_vars

\* request() is called with any method, any body and any config
FetchOptionsInit ==
  /\ GwInit
  /\ calls = [c \in Calls |-> IdleCall]
  /\ scopes = [r \in Req |-> IdleChain]
  /\ cmp = NoCmp
  /\ merge = NoMerge
  /\ fetchOptions \in {[NoFetchOptions EXCEPT !.config = config,
                                              !.options = [method |-> method,
                                                           body |-> body]] :
                        config \in Configs, method \in MethodOptions, body \in Bodies}
  /\ indexStatus = NoIndexFile
  /\ indexCalls = [c \in Calls |-> IdleIndexCall]
  /\ credentialsFile = NoCredentialsFile
  /\ credCalls = NoCredCalls

FetchOptionsNext == BuildFetchOptions

FetchOptionsSpec == FetchOptionsInit /\ [][FetchOptionsNext]_vars

\* two calls of markProjectIndexed or unmarkProjectIndexed whose awaits
\* interleave freely, over any index status file, while time passes
IndexInit ==
  /\ GwInit
  /\ calls = [c \in Calls |-> IdleCall]
  /\ scopes = [r \in Req |-> IdleChain]
  /\ cmp = NoCmp
  /\ merge = NoMerge
  /\ fetchOptions = NoFetchOptions
  /\ indexStatus \in IndexFiles
  /\ indexCalls = [c \in Calls |-> IdleIndexCall]
  /\ credentialsFile = NoCredentialsFile
  /\ credCalls = NoCredCalls

IndexNext ==
  \/ \E c \in Calls, projectPath \in ProjectPaths, project_id \in ProjectIds :
        MarkProjectIndexed(c, projectPath, project_id)
  \/ \E c \in Calls, projectPath \in ProjectPaths : UnmarkProjectIndexed(c, projectPath)
  \/ \E c \in Calls : ReadIndexStatus(c)
  \/ \E c \in Calls : WriteIndexStatus(c)
  \/ Tick

IndexSpec == IndexInit /\ [][IndexNext]_vars

\* writes and reads of the credentials file, one call at a time, while
\* time passes
CredentialsNext ==
  \/ \E input \in CredentialInputs : WriteSavedCredentials(input)
  \/ ReadSavedCredentials
  \/ Tick

CredentialsSpec == Init /\ [][CredentialsNext]_vars

\* ======================================================== gateway claims
\* a request whose headers carry a credential: an API key, an identity
\* token or a Bearer authorization
CarriesCredential(headers) ==
  \/ headers.xApiKey # Undef
  \/ headers.xContextstreamApiKey # Undef
  \/ headers.xContextstreamJwt # Undef
  \/ headers.authorization \in {BearerK1, BearerJ1}

CarriesScope(headers) ==
  \/ headers.xWorkspaceId # Undef
  \/ headers.xContextstreamWorkspaceId # Undef
  \/ headers.xProjectId # Undef
  \/ headers.xContextstreamProjectId # Undef

\* C1: while a request is being handled, getAuthOverride() on its call chain
\* returns the overlay that this request installed, whatever the other
\* chain does in between.
C1_OverlayIsolation ==
  \A r \in Req : req[r].pc = "handling" => getAuthOverride(r) = req[r].override

\* C1 witness: both chains are inside a scope, with different overlays
C1_TwoOverlaysInFlight ==
  /\ req[1].pc = "handling" /\ req[2].pc = "handling"
  /\ ~req[1].override.isNull /\ ~req[2].override.isNull
  /\ req[1].override # req[2].override

\* C2: a request on a known session that carries scope headers and no
\* credential, when the session's recorded overlay holds a credential, is
\* handled with, and records, the prior credential together with the new
\* scope values.
C2_ScopeOnlyKeepsCredential ==
  [][\A headers \in SerialHeaders :
       LET e == sessionsGet(headers.mcpSessionId)
           merged == [fallbackOf(e) EXCEPT
                        !.workspaceId = Or(headers.xContextstreamWorkspaceId,
                                           headers.xWorkspaceId)]
       IN (/\ e # 0
           /\ ~CarriesCredential(headers) /\ headers.authorization = Undef
           /\ CarriesScope(headers)
           /\ Truthy(tokenOf(fallbackOf(e)))
           /\ HandleMcpRequest(1, headers))
          => /\ req'[1].pc = "handling"
             /\ req'[1].override = merged
             /\ entries'[e].authOverride = merged]_vars

C4_UnknownSessionCreatesNothing ==
  [][\A r \in Req, headers \in Headers :
       (/\ headers.mcpSessionId # 0
        /\ req'[r].sessionId = headers.mcpSessionId
        /\ sessionsGet(headers.mcpSessionId) = 0
        /\ HandleMcpRequest(r, headers))
       => /\ sessions' = sessions
          /\ entries' = entries
          /\ req'[r].pc = "done"]_vars

\* C4 witness: a request naming an unregistered id was rejected while
\* another session is registered
C4_RejectedBesideRegistered ==
  \E r \in Req :
    /\ req[r].pc = "done" /\ req[r].status \in {401, 404}
    /\ req[r].sessionId # 0 /\ sessions[req[r].sessionId] = 0
    /\ \E s \in SessionIds : sessions[s] # 0

\* C5: with authentication required, a request whose headers carry no
\* credential, on no session or on a session whose recorded overlay holds
\* none, is answered 401 and nothing else happens: no session is created,
\* no overlay or timestamp is recorded, no overlay scope is entered and no
\* outbound call is made.
C5_UnauthorizedBeforeAnything ==
  [][\A headers \in SerialHeaders :
       (/\ REQUIRE_AUTH
        /\ req'[1].sessionId = headers.mcpSessionId
        /\ ~CarriesCredential(headers)
        /\ ~Truthy(tokenOf(fallbackOf(sessionsGet(headers.mcpSessionId))))
        /\ HandleMcpRequest(1, headers))
       => /\ req'[1].pc = "done" /\ req'[1].status = 401
          /\ UNCHANGED <<sessions, entries, authContext, outbound>>]_vars

\* C5 witness: a request without session id and credential was answered 401
C5_UnauthorizedNoSession ==
  /\ REQUIRE_AUTH
  /\ req[1].pc = "done" /\ req[1].status = 401 /\ req[1].sessionId = 0
  /\ now = MaxClock

Creating(rq) == rq.pc = "handling" /\ rq.existingSession = 0

\* C16: the session created for a request without session id is not in the
\* registry while that request is handled; an id enters the registry only in
\* the step that ends the handling of the request that created its session,
\* and then if and only if the transport has assigned the session that id.
C16_RegisteredAfterHandling ==
  [][/\ \A r \in Req : Creating(req'[r])
          => \A s \in SessionIds : sessions'[s] # req'[r].entry
     /\ \A s \in SessionIds :
          (sessions'[s] # 0 /\ sessions'[s] # sessions[s])
          => \E r \in Req : /\ Creating(req[r])
                            /\ req[r].entry = sessions'[s]
                            /\ entries[req[r].entry].sessionId = s
                            /\ req'[r].pc = "done" /\ req'[r].status = 200
     /\ \A r \in Req :
          (Creating(req[r]) /\ req'[r].pc = "done")
          => LET id == entries[req[r].entry].sessionId
             IN IF id # 0 /\ req'[r].status = 200
                  THEN sessions' = [sessions EXCEPT ![id] = req[r].entry]
                  ELSE sessions' = sessions]_vars

\* C16 witness: one created session is registered, and the session created
\* for a request still being handled has its id and is not in the registry
C16_AssignedNotYetRegistered ==
  \E r \in Req :
    /\ Creating(req[r])
    /\ entries[req[r].entry].sessionId # 0
    /\ sessions[entries[req[r].entry].sessionId] = 0
    /\ \E s \in SessionIds : sessions[s] # 0

\* C17: a session whose transport has reported its closure is not in the
\* registry, and stays out of it whatever the requests in flight on it do:
\* only a request that created its session registers, and never a closed
\* one.  A closure report removes the id of the session and nothing else;
\* for an id that is absent already it leaves the registry as it is, and
\* the request goes on being handled.
C17_ClosedStaysOut ==
  [][/\ \A e \in DOMAIN entries' :
          entries'[e].closed
          => /\ \A s \in SessionIds : sessions'[s] # e
             /\ sessions'[entries'[e].sessionId] = 0
     /\ \A s \in SessionIds :
          (sessions[s] = 0 /\ sessions'[s] # 0)
          => \E r \in Req : /\ Creating(req[r]) /\ ~req[r].reported
                            /\ req[r].entry = sessions'[s]
     /\ \A r \in Req :
          (req[r].pc = "handling" /\ ~req[r].reported /\ req'[r].reported)
          => LET id == entries[req[r].entry].sessionId
             IN /\ sessions' = [sessions EXCEPT ![id] = 0]
                /\ sessions[id] = 0 => sessions' = sessions
                /\ req'[r].pc = "handling"]_vars

\* C17 witness: two requests in flight on one session have both had its
\* closure reported, the second for an id that was absent already
C17_ClosureReportedTwice ==
  /\ req[1].pc = "handling" /\ req[2].pc = "handling"
  /\ req[1].entry = req[2].entry
  /\ req[1].reported /\ req[2].reported
  /\ sessions[entries[req[1].entry].sessionId] = 0

\* C18: a registered session id maps to one entry, the entry whose
\* transport carries that id, and no entry is registered under two ids;
\* while the id stays registered its entry never changes: a step leaves the
\* binding as it is or removes it.
C18_IdBoundToOneEntry ==
  [][/\ \A s \in SessionIds :
          sessions[s] # 0 => sessions'[s] \in {sessions[s], 0}
     /\ \A s \in SessionIds :
          sessions'[s] # 0
          => /\ sessions'[s] \in DOMAIN entries'
             /\ entries'[sessions'[s]].sessionId = s
     /\ \A s, t \in SessionIds :
          (s # t /\ sessions'[s] # 0) => sessions'[s] # sessions'[t]]_vars

\* C18 witness: two sessions are registered and each is being used by a
\* request
C18_TwoSessionsInUse ==
  /\ req[1].pc = "handling" /\ req[2].pc = "handling"
  /\ req[1].existingSession # 0 /\ req[2].existingSession # 0
  /\ req[1].entry # req[2].entry
  /\ \A r \in Req : sessions[entries[req[r].entry].sessionId] = req[r].entry

\* a token of three segments separated by dots, none of them empty
ThreeSegments(token) ==
  LET dots == {i \in 1..Len(token) : token[i] = "."}
  IN /\ Cardinality(dots) = 2
     /\ 1 \notin dots /\ Len(token) \notin dots
     /\ \A i \in dots : i + 1 \notin dots

OnlyJwt(o, token) == ~o.isNull /\ o.jwt = token /\ o.apiKey = Undef

OnlyApiKey(o, token) == ~o.isNull /\ o.apiKey = token /\ o.jwt = Undef

\* C19: the overlay that extractAuthOverride resolves for a request holds
\* the identity-token header if there is one; else the API-key header if
\* there is one; else the Bearer token of the authorization header, as
\* identity token when it has three non-empty dot-separated segments and as
\* API key when it has not.  The token type names the same form, and with
\* each form the overlay holds the workspace and project scope headers.
C19_CredentialPrecedence ==
  [][\A headers \in OpeningHeaders :
       (req[1].pc = "idle" /\ HandleMcpRequest(1, headers))
       => LET idHeader == headers.xContextstreamJwt
              keyHeader == Or(headers.xApiKey, headers.xContextstreamApiKey)
              token == bearerToken(headers.authorization)
              x == extractAuthOverride(headers, NullOverride)
              asJwt == Truthy(idHeader)
                         \/ (~Truthy(keyHeader) /\ Truthy(token) /\ ThreeSegments(token))
          IN (Truthy(idHeader) \/ Truthy(keyHeader) \/ Truthy(token))
             => /\ req'[1].pc = "creating"
                /\ req'[1].override = x.override
                /\ x.tokenType = IF asJwt THEN "jwt" ELSE "api_key"
                /\ Truthy(idHeader) => OnlyJwt(x.override, idHeader)
                /\ (~Truthy(idHeader) /\ Truthy(keyHeader))
                     => OnlyApiKey(x.override, keyHeader)
                /\ (~Truthy(idHeader) /\ ~Truthy(keyHeader))
                     => IF ThreeSegments(token) THEN OnlyJwt(x.override, token)
                                                ELSE OnlyApiKey(x.override, token)
                /\ x.override.workspaceId
                     = Or(headers.xContextstreamWorkspaceId, headers.xWorkspaceId)
                /\ x.override.projectId
                     = Or(headers.xContextstreamProjectId, headers.xProjectId)]_vars

\* C19 witness: a session is opened under authentication for a request
\* whose Bearer token a..c has an empty segment and counts as an API key,
\* with the workspace and the project of its scope headers
C19_EmptySegmentIsApiKey ==
  /\ REQUIRE_AUTH
  /\ req[1].pc = "handling"
  /\ req[1].override = AuthOverride(<<"a", ".", ".", "c">>, Undef, W1, P1)

AtMostOneCredential(o) == ~(Truthy(o.apiKey) /\ Truthy(o.jwt))

\* C20: every overlay in an auth-context scope and every overlay recorded
\* on a session entry holds an API key or an identity token or neither,
\* never both.
C20_AtMostOneCredential ==
  /\ \A r \in Req : \A i \in 1..Len(authContext[r]) :
        AtMostOneCredential(authContext[r][i])
  /\ \A e \in DOMAIN entries : AtMostOneCredential(entries[e].authOverride)

\* C20 witness: a request on a registered session is handled in the scope
\* of an overlay with an identity token, which is recorded on the session
C20_TokenInstalledAndRecorded ==
  /\ req[1].pc = "handling" /\ req[1].existingSession # 0
  /\ getAuthOverride(1).jwt = J1
  /\ entries[req[1].entry].authOverride = getAuthOverride(1)

\* ===================================================== dispatcher claims
\* the kinds the specification calls transient
TransientKinds ==
  {"RATE_LIMITED", "INTERNAL_ERROR", "BAD_GATEWAY", "SERVICE_UNAVAILABLE",
   "GATEWAY_TIMEOUT"}

IsOk(status) == 200 <= status /\ status <= 299

\* C7: when attempts 1 and 2 are answered 429 and the retry maximum is at
\* least 2, the call goes on to a third attempt without surfacing anything,
\* and a third attempt answered with success makes request() return the
\* payload of that answer.
C7_RateLimitedTwiceThenSuccess ==
  [][/\ (/\ calls'[1].maxRetries >= 2
         /\ calls'[1].history \in {<<429>>, <<429, 429>>})
        => /\ calls'[1].pc \in {"sleep", "fetch", "body"}
           /\ calls'[1].outcome = NoOutcome
     /\ \A payload \in Payloads, retryAfter \in RetryAfters :
          (/\ calls[1].history = <<429, 429>>
           /\ calls[1].response.status = 200
           /\ BodyRead(1, payload, retryAfter))
          => /\ calls'[1].pc = "returned"
             /\ calls'[1].attempts = 3
             /\ calls'[1].outcome =
                  [kind |-> "value", payload |-> payload, error |-> NoError]]_vars

\* C7 witness: answers 429, 429, 200 and the call has returned a payload
C7_ThirdAttemptReturned ==
  /\ calls[1].history = <<429, 429, 200>>
  /\ calls[1].pc = "returned"
  /\ calls[1].outcome.payload.kind = "json"

\* C8: when the first attempt is answered 422, request() has made exactly
\* one attempt, has slept for no delay and throws the validation error,
\* whatever the retry maximum.
C8_ValidationEndsAtOnce ==
  (calls[1].history # <<>> /\ calls[1].history[1] = 422)
  => /\ calls[1].pc = "thrown"
     /\ calls[1].attempts = 1
     /\ calls[1].history = <<422>>
     /\ calls[1].delay = NoDelay
     /\ calls[1].outcome.kind = "error"
     /\ calls[1].outcome.error.status = 422
     /\ calls[1].outcome.error.code = "VALIDATION_ERROR"

\* C8 witness: a 422 on the first attempt with the default of 3 retries
C8_ValidationWithBudgetLeft ==
  /\ calls[1].history = <<422>>
  /\ calls[1].maxRetries = MAX_RETRIES
  /\ calls[1].pc = "thrown"

\* the attempts of call 1 that were followed by another attempt
Followed == {i \in 1..Len(calls[1].history) : i < calls[1].attempts}

IsCancelledOutcome(call) ==
  /\ call.pc = "thrown"
  /\ call.outcome.kind = "error"
  /\ call.outcome.error.message = "Request cancelled by user"

\* C11: once the caller's signal has fired while an attempt was in flight
\* (its fetch awaited, or its response body being read), request() makes no
\* further attempt, and the outcome it ends with is the "cancelled by user"
\* error.
C11_CancelInFlightEndsCall ==
  calls[1].cancelled.pc \in {"fetch", "body"}
  => /\ calls[1].attempts = calls[1].cancelled.attempts
     /\ calls[1].pc # "sleep"
     /\ calls[1].pc \in {"thrown", "returned"} => IsCancelledOutcome(calls[1])

\* C12: the kind (code) of the error that request() throws for a caller
\* cancellation differs from the kind of the error it throws for a network
\* failure.
C12_CancelledKindDistinct ==
  IsCancelledOutcome(calls[1])
  => calls[1].outcome.error.code # HttpError(0, "Network error", NullPayload).code

\* a retry-after header that is a number of seconds
IsSeconds(retryAfter) == Truthy(retryAfter) /\ ~ParseInt(retryAfter).nan

\* C13: when a failed response that is retried carries a retry-after header
\* of N seconds, the timer that request() waits for before the next attempt
\* is armed with at least N seconds, and not with the backoff delay
\* baseDelay * 2^attempt (unless that is N seconds too).
C13_RetryAfterHonoured ==
  [][\A payload \in Payloads, retryAfter \in RetryAfters :
       (/\ calls[1].pc = "body"
        /\ IsSeconds(retryAfter)
        /\ BodyRead(1, payload, retryAfter)
        /\ calls'[1].pc = "sleep")
       => LET n == ParseInt(retryAfter).value
              backoff == calls[1].baseDelay * Pow2(calls[1].attempt)
          IN /\ calls'[1].sleepTimer \div 1000 >= n
             /\ (backoff \div 1000 # n \/ backoff % 1000 # 0)
                  => calls'[1].sleepTimer # backoff]_vars

\* C14: each attempt of a call runs with the index that follows the index
\* of the attempt before it, the first with index 0, and the call never
\* makes more than maxRetries + 1 attempts: 4 with the default of
\* MAX_RETRIES = 3 retries.
C14_AttemptsBounded ==
  [][/\ calls'[1].attempts <= calls'[1].maxRetries + 1
     /\ calls'[1].maxRetries = 3 => calls'[1].attempts <= 4
     /\ calls'[1].attempts # calls[1].attempts
          => /\ calls'[1].attempts = calls[1].attempts + 1
             /\ calls'[1].attempt = calls[1].attempts
             /\ calls[1].attempts > 0 => calls'[1].attempt = calls[1].attempt + 1
     /\ calls'[1].attempts = calls[1].attempts /\ calls[1].pc # "idle"
          => calls'[1].attempt = calls[1].attempt]_vars

\* C14 witness: with the default retries, the fourth attempt, index 3, has
\* failed and ended the call
C14_FourthAttemptWasLast ==
  /\ calls[1].maxRetries = MAX_RETRIES
  /\ calls[1].attempts = 4 /\ calls[1].attempt = 3
  /\ Len(calls[1].history) = 4
  /\ calls[1].pc = "thrown"

\* the outcomes the specification calls transient: a network error or one
\* of the statuses 429, 500, 502, 503, 504
TransientOutcomes == {0, 429, 500, 502, 503, 504}

AllTransient(history) ==
  \A i \in 1..Len(history) : history[i] \in TransientOutcomes

\* C15: as long as every finished attempt of a call failed with a transient
\* outcome, the call has no outcome until attempt maxRetries + 1 has failed;
\* then it throws the error of that last attempt, with its status and kind.
C15_SurfacedAfterExhaustion ==
  LET call == calls[1]
      n == Len(call.history)
  IN AllTransient(call.history)
     => /\ call.pc # "returned"
        /\ (call.pc # "thrown") = (call.outcome = NoOutcome)
        /\ n < call.maxRetries + 1 => call.outcome = NoOutcome
        /\ call.pc = "thrown"
             => /\ call.attempts = call.maxRetries + 1
                /\ n = call.attempts
                /\ n > 0 => /\ call.outcome.error = call.lastError
                            /\ call.outcome.error.status = call.history[n]
                            /\ call.outcome.error.code = statusToCode(call.history[n])

\* C15 witness: with the default retries, a network error and the answers
\* 503, 429 and 500 have ended the call with the error of the 500
C15_FourTransientFailures ==
  /\ calls[1].history = <<0, 503, 429, 500>>
  /\ calls[1].maxRetries = MAX_RETRIES
  /\ calls[1].pc = "thrown"
  /\ calls[1].outcome.error.code = "INTERNAL_ERROR"

\* the kinds that the taxonomy gives to the statuses it names
KindTable ==
  {<<0, "NETWORK_ERROR">>, <<400, "BAD_REQUEST">>, <<401, "UNAUTHORIZED">>,
   <<403, "FORBIDDEN">>, <<404, "NOT_FOUND">>, <<409, "CONFLICT">>,
   <<422, "VALIDATION_ERROR">>, <<429, "RATE_LIMITED">>, <<500, "INTERNAL_ERROR">>,
   <<502, "BAD_GATEWAY">>, <<503, "SERVICE_UNAVAILABLE">>, <<504, "GATEWAY_TIMEOUT">>}

KindOf(status) ==
  IF \E p \in KindTable : p[1] = status
    THEN (CHOOSE p \in KindTable : p[1] = status)[2]
    ELSE "UNKNOWN_ERROR"

\* C21: the kind of every error that request() throws is the kind the
\* taxonomy gives to the error's status, unknown for a status it does not
\* name; the error thrown for a failed response carries the status of that
\* response and the body decoded from it, and as message the message of the
\* body, else the error text of the body, else the status text.
C21_KindIsFunctionOfStatus ==
  [][/\ calls'[1].pc = "thrown"
          => /\ calls'[1].outcome.kind = "error"
             /\ calls'[1].outcome.error.code = KindOf(calls'[1].outcome.error.status)
     /\ (calls[1].pc = "body" /\ calls'[1].pc = "thrown")
          => LET e == calls'[1].outcome.error
             IN /\ e.status = calls[1].response.status
                /\ \E payload \in Payloads :
                     /\ e.body = payload
                     /\ \E retryAfter \in RetryAfters : BodyRead(1, payload, retryAfter)
                /\ e.message = IF e.body.kind = "json" /\ e.body.message # ""
                                 THEN e.body.message
                               ELSE IF e.body.kind = "json" /\ e.body.error # ""
                                 THEN e.body.error
                               ELSE "statusText"]_vars

\* C21 witness: a 418, which the taxonomy does not name, has ended the call
\* with an unknown error that carries the message of its body
C21_UnnamedStatusThrown ==
  /\ calls[1].pc = "thrown"
  /\ calls[1].outcome.error.status = 418
  /\ calls[1].outcome.error.code = "UNKNOWN_ERROR"
  /\ calls[1].outcome.error.message = "m"
  /\ calls[1].outcome.error.body.kind = "json"

\* C22: when attempt k fails with a network error, or with a retryable
\* status and no retry-after header, and is retried, the timer of the sleep
\* before the next attempt is armed with baseDelay * 2^k ms, baseDelay being
\* 1000 unless options.retryDelay is given.
C22_BackoffIsExponential ==
  [][(/\ calls'[1].pc = "sleep"
      /\ \/ calls[1].pc = "fetch" /\ FetchFails(1)
         \/ /\ calls[1].pc = "body"
            /\ \E payload \in Payloads : BodyRead(1, payload, Undef))
     => /\ calls'[1].sleepTimer = calls[1].baseDelay * 2^(calls[1].attempt)
        /\ calls'[1].attempt = calls[1].attempt
        /\ calls[1].baseDelay \in {BASE_DELAY, 500}]_vars

\* C22 witness: with the default base the call has slept 1 s and 2 s and
\* now sleeps 4 s after its third failed attempt, a 503 after two network
\* errors
C22_SleepsFourSeconds ==
  /\ calls[1].pc = "sleep"
  /\ calls[1].baseDelay = 1000
  /\ calls[1].attempt = 2
  /\ calls[1].history = <<0, 0, 503>>
  /\ calls[1].sleepTimer = 4000

\* C23: the only timeout timer of a call that can be pending is the timer of
\* the attempt whose fetch is in flight; an attempt starts with no timer of
\* an earlier attempt pending and arms its own; a timer that fires is the
\* timer of the attempt in flight; and no timer is pending once the call has
\* returned or thrown.
C23_OneTimerPerAttempt ==
  [][/\ calls'[1].timers \subseteq {calls'[1].attempt}
     /\ calls'[1].timers # {} => calls'[1].pc = "fetch"
     /\ calls'[1].attempts > calls[1].attempts
          => calls[1].timers = {} /\ calls'[1].timers = {calls'[1].attempt}
     /\ \A k \in 0..(MaxRetriesOpt + MAX_RETRIES) :
          (k \in calls[1].timers /\ TimeoutFires(1, k))
            => k = calls[1].attempt /\ calls[1].pc = "fetch"]_vars

\* C23 witness: the third attempt is in flight under its own timer after a
\* network error and a 503, whose timers are gone
C23_ThirdAttemptOwnTimer ==
  /\ calls[1].pc = "fetch"
  /\ calls[1].attempt = 2
  /\ calls[1].history = <<0, 503>>
  /\ calls[1].timers = {2}

\* C30: a call whose options.signal had fired before request() was called
\* makes no attempt, a call whose options.signal fires while it sleeps
\* between two attempts makes no further attempt, and either call ends by
\* throwing the error of a cancellation.
C30_CancelOutsideAttemptEndsCall ==
  [][/\ (calls[1].signal = "aborted" /\ calls[1].cancelled.pc \in {"none", "sleep"})
          => calls'[1].attempts = calls[1].attempts
     /\ \A options \in Options :
          (options.signal = "aborted" /\ Request(1, options))
            => /\ calls'[1].attempts = 0
               /\ calls'[1].pc = "thrown"
               /\ calls'[1].outcome.error.message = "Request cancelled by user"
     /\ (calls[1].pc = "sleep" /\ SignalAborts(1) /\ calls'[1].pc \in {"returned", "thrown"})
          => /\ calls'[1].pc = "thrown"
             /\ calls'[1].outcome.error.message = "Request cancelled by user"]_vars

\* the other of the two calls
OtherCall(c) == 3 - c

\* C25: under every interleaving of two calls of request(), a step of one
\* call leaves the attempt counter, retry budget, last error, controllers
\* and everything else of the other call as they were; each call makes at
\* most its own maxRetries + 1 attempts; and a call that gives up on a
\* transient failure has failed its own maxRetries + 1 attempts.
C25_CallsShareNoState ==
  [][\A c \in Calls :
       /\ calls'[c] # calls[c] => calls'[OtherCall(c)] = calls[OtherCall(c)]
       /\ calls'[c].pc # "idle" => calls'[c].attempts <= calls'[c].maxRetries + 1
       /\ calls'[c].attempts = IF calls'[c].pc \in {"fetch", "body"}
                                   THEN Len(calls'[c].history) + 1
                                   ELSE Len(calls'[c].history)
       /\ (/\ calls'[c].pc = "thrown"
           /\ calls'[c].outcome.error.status \in {503}
              \/ calls'[c].outcome.error.message = "Network error")
          => Len(calls'[c].history) = calls'[c].maxRetries + 1]_vars

\* C25 witness: call 1, without retries, has given up on its first 503
\* while call 2, with two retries, has its third attempt in flight after two
\* 503s
C25_BudgetsSideBySide ==
  /\ calls[1].pc = "thrown" /\ calls[1].maxRetries = 0
  /\ calls[1].history = <<503>>
  /\ calls[2].pc = "fetch" /\ calls[2].maxRetries = 2
  /\ calls[2].history = <<503, 503>>
  /\ calls[2].attempt = 2

\* the requests that carry neither a credential nor a scope
BareHeaders ==
  {headers \in SerialHeaders : ~CarriesCredential(headers) /\ ~CarriesScope(headers)}

\* C28: a request with neither credential nor scope headers that names a
\* registered session whose recorded overlay holds a credential is not
\* rejected, whether or not authentication is required: it is handled on
\* that session, in an overlay scope equal to the recorded overlay, which
\* stays recorded.
C28_SessionCredentialInherited ==
  [][(req[1].pc = "idle" /\ req'[1].sessionId # 0 /\ sessions[req'[1].sessionId] # 0)
     => LET e == sessions[req'[1].sessionId]
        IN (Truthy(entries[e].authOverride.apiKey) \/ Truthy(entries[e].authOverride.jwt))
             => \/ /\ req'[1].pc = "handling" /\ req'[1].entry = e
                   /\ authContext'[1] = <<entries[e].authOverride>>
                   /\ entries'[e].authOverride = entries[e].authOverride
                \/ \A headers \in BareHeaders :
                     req'[1].sessionId = headers.mcpSessionId
                       => ~HandleMcpRequest(1, headers)]_vars

\* C28 witness: with authentication required, a request is handled on a
\* registered session in a scope equal to the overlay recorded on it, an
\* identity token with a workspace that an earlier request had recorded
C28_HandledUnderRecordedOverlay ==
  /\ REQUIRE_AUTH
  /\ req[1].pc = "handling" /\ req[1].existingSession # 0
  /\ sessions[req[1].sessionId] = req[1].existingSession
  /\ getAuthOverride(1) = entries[req[1].existingSession].authOverride
  /\ getAuthOverride(1).jwt = J1 /\ getAuthOverride(1).workspaceId = W1
  /\ entries[req[1].existingSession].lastSeenAt = MaxClock

\* C29: a request that bears the id which the transport has assigned to a
\* session that is not closed, be the request that created the session
\* still being handled or not, is not answered 404, and when it is handled
\* it is handled on that session.
C29_AssignedIdResolves ==
  [][\A r \in Req, headers \in Headers :
       (/\ req[r].pc = "idle"
        /\ headers.mcpSessionId # 0
        /\ req'[r].sessionId = headers.mcpSessionId
        /\ \E e \in DOMAIN entries :
              entries[e].sessionId = headers.mcpSessionId /\ ~entries[e].closed
        /\ HandleMcpRequest(r, headers))
       => /\ ~(req'[r].pc = "done" /\ req'[r].status = 404)
          /\ req'[r].pc = "handling"
               => entries[req'[r].entry].sessionId = headers.mcpSessionId]_vars

\* the override of the innermost runWithAuthOverride call that a chain is
\* in, null when it is in none
Innermost(frames) == IF frames = <<>> THEN NullOverride ELSE frames[1]

\* C24: getAuthOverride() returns the override of the innermost
\* runWithAuthOverride call whose fn is running on the calling chain,
\* whatever the other chain is in, and null when the chain is in no such
\* call, be it before the first or after the last has ended.
C24_InnermostScope ==
  [][\A c \in Req :
       (scopes'[c].seen.called /\ ScopeGet(c))
         => scopes'[c].seen.value = Innermost(scopes[c].frames)]_vars

\* C24 witness: chain 1 has left its scopes and was returned null there,
\* while chain 2, two scopes deep, was returned the inner override, which
\* is not the outer one
C24_InnerSeenOuterGone ==
  /\ scopes[1].frames = <<>> /\ authContext[2] # <<>>
  /\ scopes[1].seen = [called |-> TRUE, value |-> NullOverride]
  /\ Len(scopes[2].frames) = 2
  /\ scopes[2].frames[1] # scopes[2].frames[2]
  /\ scopes[2].seen = [called |-> TRUE, value |-> scopes[2].frames[1]]
  /\ ~scopes[2].frames[1].isNull

\* a version whose segments are all strings of digits
IsNumeric(v) ==
  LET parts == Split(v, ".")
  IN \A i \in 1..Len(parts) :
       parts[i] # <<>> /\ \A j \in 1..Len(parts[i]) : parts[i][j] \in Digits

\* the value of segment i of a numeric version, 0 when it has no such
\* segment
SegmentValue(v, i) ==
  LET parts == Split(v, ".")
  IN IF i <= Len(parts) THEN DigitsPrefix(parts[i], 0) ELSE 0

\* the order of two numeric versions: that of their first differing segment
VersionOrder(a, b) ==
  LET n == Len(a) + Len(b)
      differ == {i \in 1..n : SegmentValue(a, i) # SegmentValue(b, i)}
  IN IF differ = {} THEN 0
     ELSE LET i == CHOOSE k \in differ : \A j \in differ : k <= j
          IN IF SegmentValue(a, i) < SegmentValue(b, i) THEN 0 - 1 ELSE 1

\* C26: compareVersions(v1, v2) returns -1, 0 or 1; for versions made of
\* numbers it is the order of the first segment at which they differ as
\* numbers, a missing segment counting as 0; and for all versions
\* compareVersions(v1, v2) = -compareVersions(v2, v1) and
\* compareVersions(v1, v1) = 0.
C26_SegmentwiseNumericOrder ==
  cmp.called =>
    /\ cmp.result \in {0 - 1, 0, 1}
    /\ (IsNumeric(cmp.v1) /\ IsNumeric(cmp.v2))
         => cmp.result = VersionOrder(cmp.v1, cmp.v2)
    /\ cmp.result = 0 - compareVersions(cmp.v2, cmp.v1)
    /\ compareVersions(cmp.v1, cmp.v1) = 0

\* C26 witness: 2.0 was found older than 2.0.10, though it lacks the third
\* segment and though the text "2" sorts after the text "10"
C26_TwoBeforeTen ==
  /\ cmp.called
  /\ cmp.v1 = <<"2", ".", "0">>
  /\ cmp.v2 = <<"2", ".", "0", ".", "1", "0">>
  /\ cmp.result = 0 - 1
  /\ compareVersions(<<"2">>, <<"1", "0">>) = 0 - 1

\* the commands of the hooks of one hook type in a settings object
CommandsOf(settings, t) ==
  IF ~settings.hasHooks THEN {}
  ELSE LET matchers == settings.hooks[t].matchers
       IN UNION {{matchers[i].hooks[j] : j \in 1..Len(matchers[i].hooks)} :
                   i \in 1..Len(matchers)}

\* C27: every command of a hook in the existing settings that does not
\* contain "contextstream" is a command of a hook of the same hook type in
\* the result of mergeHooksIntoSettings, and the key of the settings other
\* than hooks has in the result the value it had.
C27_OtherHooksKept ==
  [][MergeHooksIntoSettings
     => /\ \A t \in HookTypes :
             \A command \in CommandsOf(merge.existingSettings, t) :
               ~Includes(command, contextstream)
                 => command \in CommandsOf(merge'.result, t)
        /\ merge'.result.model = merge.existingSettings.model]_vars

\* C31: from its entry to its end, getAuthOverride() on the chain of a
\* request that is being handled returns the overlay resolved for that
\* request at entry, through every step of the other request, among them
\* the step that records the other request's overlay on the session entry
\* that both share.
C31_InFlightOverlayStable ==
  [][\A r \in Req :
       (req[r].pc = "handling" /\ req'[r].pc = "handling")
         => /\ req'[r].override = req[r].override
            /\ authContext[r] # <<>> /\ authContext'[r] # <<>>
            /\ Head(authContext[r]) = req[r].override
            /\ Head(authContext'[r]) = req[r].override]_vars

\* C31 witness: two requests are handled on the same registered session
\* with different credentials; the entry records the overlay of request 2,
\* and request 1 still reads its own
C31_SharedSessionTwoCredentials ==
  /\ req[1].pc = "handling" /\ req[2].pc = "handling"
  /\ req[1].existingSession # 0 /\ req[1].entry = req[2].entry
  /\ Truthy(req[1].override.apiKey) /\ Truthy(req[2].override.jwt)
  /\ entries[req[1].entry].authOverride = req[2].override
  /\ getAuthOverride(1) = req[1].override
  /\ getAuthOverride(1) # entries[req[1].entry].authOverride

\* the statuses of the gateway's rejections: unauthorized, not found (wrong
\* path or unknown session) and method not allowed
RejectionStatuses == {401, 404, 405}

\* C32: the step that rejects a request, as unauthorized, for an unknown
\* session, for a wrong path or for a method other than GET, POST and
\* DELETE, changes neither the registry nor any session entry (its recorded
\* overlay, its last-activity time), creates no session and enters no
\* overlay scope.
C32_RejectionChangesNothing ==
  [][(req[1].pc = "idle" /\ req'[1].pc = "done"
      /\ req'[1].status \in RejectionStatuses)
     => UNCHANGED <<sessions, entries, authContext, outbound, nextSessionId>>]_vars

\* C32 witness: a request was answered 405 while a registered session holds
\* a credential and was last seen before now
C32_RejectedBesideSeenSession ==
  /\ req[1].pc = "done" /\ req[1].status = 405
  /\ \E s \in SessionIds :
       /\ sessions[s] # 0
       /\ Truthy(entries[sessions[s]].authOverride.apiKey)
       /\ entries[sessions[s]].lastSeenAt < now

\* C33: when the handling of a request throws, the request is answered
\* 500 and the registry stays as it was: the session created for the
\* request is in no slot of it, with or without an id from the transport,
\* and the registered session that the request was handled on keeps its
\* slot.
C33_ThrowLeavesRegistry ==
  [][\A r \in Req :
       (req[r].pc = "handling" /\ req'[r].pc = "done" /\ HandleThrows(r))
         => /\ req'[r].status = 500
            /\ sessions' = sessions
            /\ Creating(req[r]) => \A s \in SessionIds : sessions'[s] # req[r].entry
            /\ (~Creating(req[r]) /\ sessions[req[r].sessionId] = req[r].entry)
                 => sessions'[req[r].sessionId] = req[r].entry]_vars

\* C33 witness: request 1 was answered 500; the transport has assigned two
\* ids, the first is registered and the second, of a session whose
\* handling did not end well, is not
C33_ThrownBesideRegistered ==
  /\ req[1].pc = "done" /\ req[1].status = 500
  /\ req[2].pc = "idle"
  /\ nextSessionId = 3
  /\ sessions[1] # 0 /\ sessions[2] = 0

\* C34: the delay that request() hands to sleep() before a retry is a
\* number and is not negative; it is N * 1000 ms when the failed response
\* carries a retry-after header that is a number N of seconds, and
\* baseDelay * 2^attempt when the header is absent or is not a number of
\* seconds, and then the timer is armed with just that.
C34_DelayWellDefined ==
  [][\A payload \in Payloads, retryAfter \in RetryAfters :
       (/\ calls[1].pc = "body" /\ calls'[1].pc = "sleep"
        /\ BodyRead(1, payload, retryAfter))
       => LET delay == calls'[1].delay
              backoff == calls[1].baseDelay * 2^(calls[1].attempt)
          IN /\ ~delay.nan
             /\ delay.ms >= 0
             /\ IF IsSeconds(retryAfter)
                  THEN delay.huge \/ delay.ms = ParseInt(retryAfter).value * 1000
                  ELSE /\ delay.ms = backoff
                       /\ calls'[1].sleepTimer = backoff]_vars

\* C36: merging the same newHooks, whose commands are ContextStream's, into
\* the result of mergeHooksIntoSettings yields settings equal to that
\* result: an install that is repeated adds no matcher.
C36_MergeIdempotent ==
  merge.called
    => mergeHooksIntoSettings(merge.result, merge.newHooks) = merge.result

\* a merge that replaced the installed ContextStream matcher beside a user's
C36_InstalledReplaced ==
  /\ merge.called
  /\ merge.newHooks["PreToolUse"].present
  /\ merge.result.hooks["PreToolUse"].matchers
       = <<Matcher(<<UserCommand>>), Matcher(<<NewCommand>>)>>
  /\ merge.result.hooks["UserPromptSubmit"].matchers = <<Matcher(<<NewCommand>>)>>

\* C38: when the caller gives no method, the RequestInit that request()
\* builds has the method POST if options.body is supplied and GET if it is
\* not, and it has a body only if its method is not GET.
C38_MethodAgreesWithBody ==
  (fetchOptions.called /\ ~fetchOptions.options.method.given)
    => /\ fetchOptions.init.method
            = (IF fetchOptions.options.body # Undefined THEN "POST" ELSE "GET")
       /\ fetchOptions.init.body.present => fetchOptions.init.method # "GET"

\* the index status file shows the change of call c
ChangeReflected(c) ==
  LET call == indexCalls[c]
      entry == indexStatus.projects[call.projectPath]
  IN /\ indexStatus.exists
     /\ IF call.op = "mark"
          THEN entry.present /\ entry.project_id = call.project_id
          ELSE ~entry.present

\* C35: once two calls of markProjectIndexed or unmarkProjectIndexed for
\* different project paths have both completed, the index status file has
\* the entry that each mark wrote and lacks the entry that each unmark
\* deleted, however their reads and writes interleaved.
C35_BothChangesReflected ==
  (/\ \A c \in Calls : indexCalls[c].pc = "done"
   /\ indexCalls[1].projectPath # indexCalls[2].projectPath)
    => \A c \in Calls : ChangeReflected(c)

\* C37: a call of readSavedCredentials that follows a call of
\* writeSavedCredentials returns the value that call wrote, whose api_url
\* is the input's without trailing slashes and whose api_key is the
\* input's trimmed; and every write leaves in the file the created_at of
\* the first write and its own time as updated_at.
C37_ReadReturnsWritten ==
  [][/\ (ReadSavedCredentials /\ credCalls.writes > 0)
         => credCalls'.read = NotNull(credCalls.last)
     /\ \A input \in CredentialInputs :
          WriteSavedCredentials(input)
            => /\ credentialsFile'.value = credCalls'.last
               /\ credCalls'.last.api_url = StripTrailingSlashes(Trim(input.apiUrl))
               /\ credCalls'.last.api_key = Trim(input.apiKey)
               /\ credCalls'.last.created_at = credCalls'.first.created_at
               /\ credCalls'.last.updated_at = now]_vars

====
